---------------------------- MODULE Spec2Model ----------------------------
(***************************************************************************)
(* A model of statsd's central processor (StatsLogProcessor): the map of   *)
(* MetricsManagers, the per-key bookkeeping maps, the flush / broadcast    *)
(* engine, the config lifecycle, the train-info fix-up of the hard-coded   *)
(* atoms, and the two mutexes of the processor.                            *)
(*                                                                         *)
(* Time is counted in abstract ticks; the rate-limit periods are scaled to *)
(* a few ticks.  A MetricsManager is abstracted to the three observations  *)
(* the processor makes of it: hasRestrictedMetricsDelegate(), isActive()   *)
(* and byteSize().                                                         *)
(*                                                                         *)
(* The handlers are operators on the processor's fields; the module has    *)
(* several specifications over them, each for one part of the behaviour:   *)
(*   Spec         the flush and broadcast engine, one config key           *)
(*   SpecAct      activation broadcasts, two keys of one uid               *)
(*   SpecRemoved  what follows a removal, two keys of one uid              *)
(*   SpecConfig   the life cycle of one config key                         *)
(*   SpecTrain    the fix-up of the two privileged atoms                   *)
(*   SpecLock     threads and the two mutexes                              *)
(***************************************************************************)
EXTENDS Integers, Sequences, FiniteSets, TLC

\* ------------------------------------------------------------------ bounds
\* Largest value of the elapsed-realtime clock.
MaxTime == 3
\* Largest byteSize() a manager reports (in abstract units).
MaxBytes == 2
\* Largest dump report number reached.
MaxReports == 1
MaxLongTime == 5
\* Rate-limit periods, in ticks (StatsdStats constants, scaled).
kMinByteSizeCheckPeriodNs == 1
kMinBroadcastPeriodNs == 2
kMinActivationBroadcastPeriodNs == 2
kMinFlushRestrictedPeriodNs == 3
\* WRITE_DATA_COOL_DOWN_SEC * NS_PER_SEC, in ticks.
WRITE_DATA_COOL_DOWN == 2
\* getTriggerGetDataBytes(), kBytesPerRestrictedConfigTriggerFlush and
\* getMaxMetricsBytes() of every config, in the units of MaxBytes.
TriggerGetDataBytes == 0
kBytesPerRestrictedConfigTriggerFlush == 0
MaxMetricsBytes == 1

\* ------------------------------------------------------------- universes
\* ConfigKey = (uid, id).
Keys == {<<1, 1>>, <<1, 2>>, <<2, 1>>}
Uids == {1, 2}
GetUid(key) == key[1]
GetId(key) == key[2]
\* The order in which the manager map is walked.
KeyOrder == <<<<1, 1>>, <<1, 2>>, <<2, 1>>>>

\* An absent map entry, an absent manager.
NoTime == -1
NoManager == [present |-> FALSE]
NoKey == <<0, 0>>

VARIABLES
    now,                            \* getElapsedRealtimeNs()
    atLeastU,                       \* isAtLeastU()
    mMetricsManagers,               \* ConfigKey -> manager or NoManager
    mLastBroadcastTimes,            \* ConfigKey -> time or NoTime
    mLastByteSizeTimes,             \* ConfigKey -> time or NoTime
    mDumpReportNumbers,             \* ConfigKey -> number or NoTime
    mLastActivationBroadcastTimes,  \* uid -> time or NoTime
    mOnDiskDataConfigs,             \* set of ConfigKey
    mLastWriteTimeNs,               \* last all-configs write
    mLastFlushRestrictedTime,       \* last periodic flush of restricted data
    mNextAnomalyAlarmTime,          \* the anomaly alarm slot, in millis
    trainInfoOnDisk,                \* train name -> InstallTrainInfo or NoTrain
    log,                            \* what the last operation did
    removed,                        \* history: keys removed and not updated since
    lastUpdate,                     \* history: outcome of the last config update
    lastSent,                       \* history: time of the last data-ready broadcast
    sentCleared,                    \* history: dump or removal since lastSent
    lastActSent,                    \* history: time of the last activation broadcast
    actCleared,                     \* history: uid lost its last config since lastActSent
    pc, mutexOwner,                 \* threads and the two mutexes
    mLastActiveMetricsWriteNs,      \* last SaveActiveConfigsToDisk that went ahead
    mLastMetadataWriteNs,           \* last SaveMetadataToDisk that went ahead
    savedFiles,                     \* the active_metrics and metadata files
    lastWrote,                      \* history: when each of the two files was written
    alarmCancelled,                 \* history: alarm cancelled and not set since
    durationInfo,                   \* the DurationInfo of one duration key
    mNested,                        \* the duration tracker counts nested starts
    mCondition,                     \* the condition of the duration metric
    mDuration,                      \* duration recorded in the current bucket
    startedAndTrue,                 \* history: time the key was started with a true condition
    observing,                      \* history: the maps below are kept
    forgotten,                      \* history: keys removed since their last byteSize()
    lastChecked,                    \* history: time of the last byteSize() of each key
    lastFile,                       \* history: time of the last report file of each key
    conditionNames,                 \* the names the MultiConditionTrigger was built with
    mRemainingConditionNames,       \* MultiConditionTrigger::mRemainingConditionNames
    mCompleted,                     \* MultiConditionTrigger::mCompleted
    mMutex,                         \* MultiConditionTrigger::mMutex: its holder
    tpc,                            \* where each thread is in markComplete or mTrigger
    triggered,                      \* the number of times mTrigger was invoked
    marked,                         \* history: the names passed to markComplete
    mAnomalyTrackers,               \* DurationTracker::mAnomalyTrackers, in order
    alarms,                         \* alert -> time of its alarm for mEventKey, or NoTime
    lastAdd                         \* what the last addAnomalyTracker was given and did

procVars == <<mMetricsManagers, mLastBroadcastTimes, mLastByteSizeTimes,
              mDumpReportNumbers, mLastActivationBroadcastTimes,
              mOnDiskDataConfigs, mLastWriteTimeNs, mLastFlushRestrictedTime>>
histVars == <<removed, lastUpdate, lastSent, sentCleared, lastActSent, actCleared>>
lockVars == <<pc, mutexOwner>>
saveVars == <<mLastActiveMetricsWriteNs, mLastMetadataWriteNs, savedFiles, lastWrote>>
trackerVars == <<durationInfo, mNested, mCondition, mDuration, startedAndTrue>>
obsVars == <<observing, forgotten, lastChecked, lastFile>>
alertVars == <<mAnomalyTrackers, alarms, lastAdd>>
triggerVars == <<conditionNames, mRemainingConditionNames, mCompleted, mMutex, tpc,
                 triggered, marked>>
vars == <<now, atLeastU, procVars, mNextAnomalyAlarmTime, trainInfoOnDisk, log,
          histVars, lockVars, saveVars, alarmCancelled, trackerVars, obsVars, triggerVars, alertVars>>


\* ------------------------------------------------------------- helpers
Max(a, b) == IF a >= b THEN a ELSE b
Min(a, b) == IF a <= b THEN a ELSE b
Contains(seq, x) == \E i \in 1..Len(seq) : seq[i] = x
PushBackIfAbsent_always(ids, id) == Append(ids, id)
\* ids.push_back(id) unless find(ids.begin(), ids.end(), id) finds it.
PushBackIfAbsent(ids, id) == IF Contains(ids, id) THEN ids ELSE Append(ids, id)

\* ----------------------------------------------------- train info on disk
TrainNames == {"X"}
NoTrain == [present |-> FALSE]
NoTrainInfo ==
    [trainName |-> "", trainVersionCode |-> -1, requiresStaging |-> FALSE,
     rollbackEnabled |-> FALSE, requiresLowLatencyMonitor |-> FALSE,
     status |-> "UNKNOWN", experimentIds |-> <<>>]
NoBits ==
    [requiresStaging |-> FALSE, rollbackEnabled |-> FALSE,
     requiresLowLatencyMonitor |-> FALSE]
\* StorageManager::readTrainInfo succeeds iff a record is stored.
readTrainInfoSuccess(disk, name) == name \in TrainNames /\ disk[name].present
\* StorageManager::writeTrainInfo(info).
writeTrainInfo(disk, info) ==
    [disk EXCEPT ![info.trainName] =
        [present |-> TRUE,
         trainVersionCode |-> info.trainVersionCode,
         requiresStaging |-> info.requiresStaging,
         rollbackEnabled |-> info.rollbackEnabled,
         requiresLowLatencyMonitor |-> info.requiresLowLatencyMonitor,
         status |-> info.status,
         experimentIds |-> info.experimentIds]]

\* The marker a binary-push status appends: firstId + 1, + 2 or + 3.
StatusMarker(status) ==
    CASE status = "INSTALL_SUCCESS" -> 1
      [] status = "INSTALLER_ROLLBACK_INITIATED" -> 2
      [] status = "INSTALLER_ROLLBACK_SUCCESS" -> 3
      [] OTHER -> 0

getAndUpdateTrainInfoOnDisk_resetOnRollback(disk, is_rollback, trainInfo, uninit) ==
    IF trainInfo.trainName = "" THEN [disk |-> disk, info |-> trainInfo, wrote |-> FALSE]
    ELSE
    LET ok == readTrainInfoSuccess(disk, trainInfo.trainName)
        onDisk == IF ok THEN disk[trainInfo.trainName]
                  ELSE [present |-> FALSE, trainVersionCode |-> 0, experimentIds |-> <<>>,
                        requiresStaging |-> uninit.requiresStaging,
                        rollbackEnabled |-> uninit.rollbackEnabled,
                        requiresLowLatencyMonitor |-> uninit.requiresLowLatencyMonitor]
        version == IF ok /\ trainInfo.trainVersionCode = -1
                   THEN onDisk.trainVersionCode ELSE trainInfo.trainVersionCode
        resetExperimentIds ==
            /\ ok
            /\ \/ /\ trainInfo.trainVersionCode # -1
                  /\ trainInfo.trainVersionCode # onDisk.trainVersionCode
               \/ /\ trainInfo.experimentIds # <<>>
                  /\ \/ onDisk.experimentIds = <<>>
                     \/ trainInfo.experimentIds[1] # onDisk.experimentIds[1]
        ids0 == IF ~resetExperimentIds /\ ok
                THEN onDisk.experimentIds ELSE trainInfo.experimentIds
        ids1 == IF ids0 # <<>> /\ StatusMarker(trainInfo.status) # 0
                THEN PushBackIfAbsent(ids0, ids0[1] + StatusMarker(trainInfo.status))
                ELSE ids0
        info == [trainInfo EXCEPT
                    !.trainVersionCode = version,
                    !.experimentIds = ids1,
                    !.requiresStaging =
                        IF is_rollback THEN onDisk.requiresStaging ELSE @,
                    !.rollbackEnabled =
                        IF is_rollback THEN onDisk.rollbackEnabled ELSE @,
                    !.requiresLowLatencyMonitor =
                        IF is_rollback THEN onDisk.requiresLowLatencyMonitor ELSE @]
    IN [disk |-> writeTrainInfo(disk, info), info |-> info, wrote |-> TRUE]
\* getAndUpdateTrainInfoOnDisk: returns the disk and the train info the
\* caller patches into the event.  uninit gives the values the three bits of
\* the local trainInfoOnDisk hold when nothing was read into it.
getAndUpdateTrainInfoOnDisk(disk, is_rollback, trainInfo, uninit) ==
    IF trainInfo.trainName = "" THEN [disk |-> disk, info |-> trainInfo, wrote |-> FALSE]
    ELSE
    LET ok == readTrainInfoSuccess(disk, trainInfo.trainName)
        onDisk == IF ok THEN disk[trainInfo.trainName]
                  ELSE [present |-> FALSE, trainVersionCode |-> 0, experimentIds |-> <<>>,
                        requiresStaging |-> uninit.requiresStaging,
                        rollbackEnabled |-> uninit.rollbackEnabled,
                        requiresLowLatencyMonitor |-> uninit.requiresLowLatencyMonitor]
        version == IF ok /\ trainInfo.trainVersionCode = -1
                   THEN onDisk.trainVersionCode ELSE trainInfo.trainVersionCode
        resetExperimentIds ==
            /\ ok
            /\ \/ /\ trainInfo.trainVersionCode # -1
                  /\ trainInfo.trainVersionCode # onDisk.trainVersionCode
               \/ /\ trainInfo.experimentIds # <<>>
                  /\ \/ onDisk.experimentIds = <<>>
                     \/ trainInfo.experimentIds[1] # onDisk.experimentIds[1]
        ids0 == IF (~resetExperimentIds \/ is_rollback) /\ ok
                THEN onDisk.experimentIds ELSE trainInfo.experimentIds
        ids1 == IF ids0 # <<>> /\ StatusMarker(trainInfo.status) # 0
                THEN PushBackIfAbsent(ids0, ids0[1] + StatusMarker(trainInfo.status))
                ELSE ids0
        info == [trainInfo EXCEPT
                    !.trainVersionCode = version,
                    !.experimentIds = ids1,
                    !.requiresStaging =
                        IF is_rollback THEN onDisk.requiresStaging ELSE @,
                    !.rollbackEnabled =
                        IF is_rollback THEN onDisk.rollbackEnabled ELSE @,
                    !.requiresLowLatencyMonitor =
                        IF is_rollback THEN onDisk.requiresLowLatencyMonitor ELSE @]
    IN [disk |-> writeTrainInfo(disk, info), info |-> info, wrote |-> TRUE]

RollbackMarker_initiateOnly(rollbackType) ==
    CASE rollbackType = "ROLLBACK_INITIATE" -> 4
      [] OTHER -> 0
\* The marker a watchdog rollback type appends: firstId + 4 or + 5.
RollbackMarker(rollbackType) ==
    CASE rollbackType = "ROLLBACK_INITIATE" -> 4
      [] rollbackType = "ROLLBACK_SUCCESS" -> 5
      [] OTHER -> 0

processWatchdogRollbackOccurred_noFind(disk, rollbackTypeIn, packageNameIn) ==
    IF packageNameIn = "" THEN [disk |-> disk, ids |-> <<>>, wrote |-> FALSE,
                                read |-> FALSE]
    ELSE IF ~readTrainInfoSuccess(disk, packageNameIn)
    THEN [disk |-> disk, ids |-> <<>>, wrote |-> FALSE, read |-> TRUE]
    ELSE IF disk[packageNameIn].experimentIds = <<>>
    THEN [disk |-> disk, ids |-> <<>>, wrote |-> FALSE, read |-> TRUE]
    ELSE
    LET onDisk == disk[packageNameIn]
        firstId == onDisk.experimentIds[1]
        marker == RollbackMarker(rollbackTypeIn)
        ids == IF marker # 0 THEN Append(onDisk.experimentIds, firstId + marker)
               ELSE onDisk.experimentIds
    IN [disk |-> IF marker # 0
                 THEN [disk EXCEPT ![packageNameIn].experimentIds = ids]
                 ELSE disk,
        ids |-> ids, wrote |-> marker # 0, read |-> TRUE]
processWatchdogRollbackOccurred_readsFirst(disk, rollbackTypeIn, packageNameIn) ==
    IF ~readTrainInfoSuccess(disk, packageNameIn)
    THEN [disk |-> disk, ids |-> <<>>, wrote |-> FALSE, read |-> TRUE]
    ELSE IF disk[packageNameIn].experimentIds = <<>>
    THEN [disk |-> disk, ids |-> <<>>, wrote |-> FALSE, read |-> TRUE]
    ELSE
    LET onDisk == disk[packageNameIn]
        firstId == onDisk.experimentIds[1]
        marker == RollbackMarker(rollbackTypeIn)
        ids == IF marker # 0 THEN PushBackIfAbsent(onDisk.experimentIds, firstId + marker)
               ELSE onDisk.experimentIds
    IN [disk |-> IF marker # 0
                 THEN [disk EXCEPT ![packageNameIn].experimentIds = ids]
                 ELSE disk,
        ids |-> ids, wrote |-> marker # 0, read |-> TRUE]
\* processWatchdogRollbackOccurred: returns the disk and the returned ids;
\* read, wrote: StorageManager::readTrainInfo / writeTrainInfo was called.
processWatchdogRollbackOccurred(disk, rollbackTypeIn, packageNameIn) ==
    IF packageNameIn = "" THEN [disk |-> disk, ids |-> <<>>, wrote |-> FALSE,
                                read |-> FALSE]
    ELSE IF ~readTrainInfoSuccess(disk, packageNameIn)
    THEN [disk |-> disk, ids |-> <<>>, wrote |-> FALSE, read |-> TRUE]
    ELSE IF disk[packageNameIn].experimentIds = <<>>
    THEN [disk |-> disk, ids |-> <<>>, wrote |-> FALSE, read |-> TRUE]
    ELSE
    LET onDisk == disk[packageNameIn]
        firstId == onDisk.experimentIds[1]
        marker == RollbackMarker(rollbackTypeIn)
        ids == IF marker # 0 THEN PushBackIfAbsent(onDisk.experimentIds, firstId + marker)
               ELSE onDisk.experimentIds
    IN [disk |-> IF marker # 0
                 THEN [disk EXCEPT ![packageNameIn].experimentIds = ids]
                 ELSE disk,
        ids |-> ids, wrote |-> marker # 0, read |-> TRUE]

\* No call of processWatchdogRollbackOccurred.
NoRollbackCall ==
    [called |-> FALSE, rollbackType |-> "UNKNOWN", packageName |-> "", ids |-> <<>>,
     read |-> FALSE, wrote |-> FALSE]

\* No call of getAndUpdateTrainInfoOnDisk.
NoPushCall ==
    [called |-> FALSE, is_rollback |-> FALSE, trainInfo |-> NoTrainInfo,
     info |-> NoTrainInfo, wrote |-> FALSE]

HasPermissions_dumpOnly(event) == event.hasDump
\* checkPermissionForIds(DUMP) && checkPermissionForIds(PACKAGE_USAGE_STATS).
HasPermissions(event) == event.hasDump /\ event.hasUsage

\* onBinaryPushStateChangedEventLocked: the disk after the event and whether
\* the event's fields were patched.
onBinaryPushStateChangedEventLocked(disk, event) ==
    IF ~HasPermissions(event)
    THEN [disk |-> disk, patched |-> FALSE, ids |-> <<>>, call |-> NoRollbackCall,
          push |-> NoPushCall]
    ELSE IF ~event.parseOk
    THEN [disk |-> disk, patched |-> FALSE, ids |-> <<>>, call |-> NoRollbackCall,
          push |-> NoPushCall]
    ELSE LET r == getAndUpdateTrainInfoOnDisk(disk, event.isRollback, event.trainInfo,
                                              event.uninit)
         IN [disk |-> r.disk, patched |-> TRUE, ids |-> r.info.experimentIds,
             call |-> NoRollbackCall,
             push |-> [called |-> TRUE, is_rollback |-> event.isRollback,
                       trainInfo |-> event.trainInfo, info |-> r.info,
                       wrote |-> r.wrote]]

\* onWatchdogRollbackOccurredLocked.
onWatchdogRollbackOccurredLocked(disk, event) ==
    IF ~HasPermissions(event)
    THEN [disk |-> disk, patched |-> FALSE, ids |-> <<>>, call |-> NoRollbackCall,
          push |-> NoPushCall]
    ELSE IF ~event.parseOk
    THEN [disk |-> disk, patched |-> FALSE, ids |-> <<>>, call |-> NoRollbackCall,
          push |-> NoPushCall]
    ELSE LET r == processWatchdogRollbackOccurred(disk, event.rollbackType,
                                                  event.packageName)
         IN [disk |-> r.disk, patched |-> TRUE, ids |-> r.ids,
             call |-> [called |-> TRUE, rollbackType |-> event.rollbackType,
                       packageName |-> event.packageName, ids |-> r.ids,
                       read |-> r.read, wrote |-> r.wrote],
             push |-> NoPushCall]


\* ----------------------------------------------------- DurationTracker
kStopped == 0
kStarted == 1
kPaused == 2
\* DurationInfo(): state(kStopped), startCount(0), lastStartTime(0),
\* lastDuration(0).
DurationInfo ==
    [state |-> kStopped, startCount |-> 0, lastStartTime |-> 0, lastDuration |-> 0]

\* noteStart(key, condition, eventTime): a stopped key starts, running if the
\* condition is true and paused if not; a further start of a started key
\* counts when nesting is enabled and collapses otherwise.
noteStart(info, nesting, condition, eventTime) ==
    IF info.state = kStopped
    THEN [info EXCEPT !.state = IF condition THEN kStarted ELSE kPaused,
                      !.startCount = 1,
                      !.lastStartTime = IF condition THEN eventTime ELSE @]
    ELSE [info EXCEPT !.startCount = IF nesting THEN @ + 1 ELSE @]

\* noteStop(key, eventTime): the last stop of a started key ends it; a
\* running key adds the time since its last start.  Returns the info and
\* whether the key ended.
noteStop(info, nesting, eventTime) ==
    IF info.state = kStopped THEN [info |-> info, ended |-> FALSE]
    ELSE IF nesting /\ info.startCount > 1
    THEN [info |-> [info EXCEPT !.startCount = @ - 1], ended |-> FALSE]
    ELSE [info |-> [info EXCEPT
                      !.state = kStopped,
                      !.startCount = 0,
                      !.lastDuration =
                          IF info.state = kStarted
                          THEN @ + (eventTime - info.lastStartTime) ELSE @],
          ended |-> TRUE]

onConditionChanged_keepsStartTime(info, condition, timestamp) ==
    IF ~condition /\ info.state = kStarted
    THEN [info EXCEPT !.state = kPaused,
                      !.lastDuration = @ + (timestamp - info.lastStartTime)]
    ELSE IF condition /\ info.state = kPaused
    THEN [info EXCEPT !.state = kStarted]
    ELSE info
\* onConditionChanged(condition, timestamp): false pauses a running key,
\* true resumes a paused one.
onConditionChanged(info, condition, timestamp) ==
    IF ~condition /\ info.state = kStarted
    THEN [info EXCEPT !.state = kPaused,
                      !.lastDuration = @ + (timestamp - info.lastStartTime)]
    ELSE IF condition /\ info.state = kPaused
    THEN [info EXCEPT !.state = kStarted, !.lastStartTime = timestamp]
    ELSE info

\* ------------------------------------------------------ MetricsManager
\* What the processor observes of a manager.
Manager(restricted, active, bytes) ==
    [present |-> TRUE, restricted |-> restricted, active |-> active, bytes |-> bytes]
hasRestrictedMetricsDelegate(m) == m.present /\ m.restricted
\* MetricsManager::onLogEvent: the event may add data and may change the
\* activation state.
managerOnLogEvent(m, grows, flips) ==
    [m EXCEPT !.bytes = IF grows THEN Min(@ + 1, MaxBytes) ELSE @,
              !.active = IF flips THEN ~@ ELSE @]
\* MetricsManager::dropData clears the buffered data.
dropData(m) == [m EXCEPT !.bytes = 0]
\* MetricsManager::flushRestrictedData: moves the data to the restricted
\* store; no-op if the manager is not restricted.
flushRestrictedData(m) == IF m.restricted THEN [m EXCEPT !.bytes = 0] ELSE m
\* MetricsManager::onDumpReport: erases the reported data when asked to.
managerOnDumpReport(m, erase_data) == IF erase_data THEN [m EXCEPT !.bytes = 0] ELSE m
\* MetricsManager::isConfigValid / updateConfig: a config with a restricted
\* metrics delegate is invalid below U.
isConfigValid(config, isU) == config.valid /\ (config.restricted => isU)

\* ------------------------------------------------------------ the log
\* The calls the last operation made to its collaborators.
\* The fields validateAppBreadcrumbEvent reads: the uid and the state the
\* event encodes and whether reading them fails, and the host uid of the
\* caller.
GoodCrumb ==
    [uidErr |-> FALSE, appHookUid |-> 1, loggerUid |-> 1, stateErr |-> FALSE,
     appHookState |-> 0]
EmptyLog ==
    [op |-> "none", key |-> NoKey,
     tag |-> "none",        \* the atom of the event OnLogEvent was given
     valid |-> TRUE,        \* its isValid()
     authorized |-> TRUE,   \* its caller holds DUMP and PACKAGE_USAGE_STATS
     checks |-> {},         \* byte-size checks performed by flushIfNecessary
     delivered |-> {},      \* keys whose manager's onLogEvent was called
     actCalls |-> {},       \* sendActivationBroadcast(uid, ids) and its result
     actHits |-> {},        \* noteActivationBroadcastGuardrailHit(uid)
     toDisk |-> {},         \* keys WriteDataToDiskLocked(key) set out to persist
     files |-> {},          \* keys a report file was written for
     flushed |-> {},        \* keys whose flushRestrictedData was called
     mgrDumped |-> {},      \* keys whose manager's onDumpReport was called
     dumpOut |-> FALSE,     \* onDumpReport wrote to its output
     rmBcasts |-> {},       \* sendRestrictedMetricsBroadcast(key, delegate, ids)
     patched |-> FALSE,     \* the event's fields were patched
     alarmFired |-> FALSE,  \* informAnomalyAlarmFiredLocked was called
     expired |-> NoKey,     \* the key OnLogEvent found out of its time-to-live
     shouldWrite |-> TRUE,  \* shouldWriteToDisk() as WriteDataToDisk found it
     query |-> [configId |-> 0, uids |-> {}, validates |-> {}],
                            \* what querySql was asked and by whom
     failures |-> 0,        \* calls of callback->sendFailure
     results |-> 0,         \* calls of callback->sendResults
     noted |-> 0,           \* calls of noteQueryRestrictedMetricFailed
     queried |-> {},        \* keys dbutils::query was run against
     ttlEnforced |-> FALSE, \* enforceDataTtlsLocked was called
     rollback |-> NoRollbackCall,
     push |-> NoPushCall,
     crumb |-> GoodCrumb,   \* the breadcrumb fields of the event
     restricted |-> FALSE,  \* its isRestricted()
     onLogEventCalls |-> 0] \* calls of a manager's onLogEvent
                            \* the call of processWatchdogRollbackOccurred

\* The processor's fields as one value, threaded through a handler.
Proc ==
    [mgr |-> mMetricsManagers, lastBc |-> mLastBroadcastTimes,
     lastByte |-> mLastByteSizeTimes, reportNum |-> mDumpReportNumbers,
     lastAct |-> mLastActivationBroadcastTimes, onDisk |-> mOnDiskDataConfigs,
     lastWrite |-> mLastWriteTimeNs, lastFlush |-> mLastFlushRestrictedTime,
     uidsWithActiveConfigsChanged |-> {},
     activeConfigsPerUid |-> [u \in Uids |-> {}],
     log |-> EmptyLog]

PresentKeys(P) == {k \in Keys : P.mgr[k].present}

\* ------------------------------------------------ flushIfNecessaryLocked
ByteSizeCheckLimited_never(lastCheckTime, t) == FALSE
ByteSizeCheckLimited_inclusive(lastCheckTime, t) ==
    lastCheckTime # NoTime /\ t - lastCheckTime <= kMinByteSizeCheckPeriodNs
\* The byte-size check is skipped within kMinByteSizeCheckPeriodNs of the last.
ByteSizeCheckLimited(lastCheckTime, t) ==
    lastCheckTime # NoTime /\ t - lastCheckTime < kMinByteSizeCheckPeriodNs

TooLarge_never(totalBytes) == FALSE
\* totalBytes > metricsManager.getMaxMetricsBytes().
TooLarge(totalBytes) == totalBytes > MaxMetricsBytes

RequestDump_evenIfTooLarge(tooLarge, totalBytes, kBytesPerConfig, onDisk) ==
    totalBytes > kBytesPerConfig \/ onDisk
\* The else-branch that sets requestDump.
RequestDump(tooLarge, totalBytes, kBytesPerConfig, onDisk) ==
    ~tooLarge /\ (totalBytes > kBytesPerConfig \/ onDisk)

FlushOnly_never(requestDump, m) == FALSE
\* A requested dump of a restricted manager flushes and returns.
FlushOnly(requestDump, m) == requestDump /\ hasRestrictedMetricsDelegate(m)

BroadcastLimited_never(lastBroadcastTime, t) == FALSE
\* The data-ready broadcast is skipped within kMinBroadcastPeriodNs of the last.
BroadcastLimited(lastBroadcastTime, t) ==
    lastBroadcastTime # NoTime /\ t - lastBroadcastTime < kMinBroadcastPeriodNs

BroadcastSent_evenIfFailed(invoked, sendOk) == invoked
\* if (mSendBroadcast(key)): the callback was invoked and returned true.
BroadcastSent(invoked, sendOk) == invoked /\ sendOk

\* sendOk: what mSendBroadcast(key) returns if it is called.
flushIfNecessaryLocked(P, key, t, sendOk) ==
    LET m == P.mgr[key]
        lastCheckTime == P.lastByte[key]
    IN
    IF ByteSizeCheckLimited(lastCheckTime, t) THEN P
    ELSE
    LET totalBytes == m.bytes
        kBytesPerConfig == IF hasRestrictedMetricsDelegate(m)
                           THEN kBytesPerRestrictedConfigTriggerFlush
                           ELSE TriggerGetDataBytes
        tooLarge == TooLarge(totalBytes)
        requestDump == RequestDump(tooLarge, totalBytes, kBytesPerConfig,
                                   key \in P.onDisk)
        flushOnly == FlushOnly(requestDump, m)
        lastBroadcastTime == P.lastBc[key]
        invoked == /\ requestDump
                   /\ ~flushOnly
                   /\ ~BroadcastLimited(lastBroadcastTime, t)
        sent == BroadcastSent(invoked, sendOk)
        m1 == IF tooLarge THEN dropData(m)
              ELSE IF flushOnly THEN flushRestrictedData(m)
              ELSE m
        R == [P EXCEPT !.mgr[key] = m1,
                       !.lastByte[key] = t,
                       !.onDisk = IF sent THEN @ \ {key} ELSE @,
                       !.lastBc[key] = IF sent THEN t ELSE @]
    IN [R EXCEPT !.log.checks = @ \cup
            {[key |-> key, bytes |-> totalBytes,
              restricted |-> hasRestrictedMetricsDelegate(m),
              dropped |-> IF tooLarge THEN totalBytes ELSE -1,
              cleared |-> R.mgr[key].bytes = 0,
              requestDump |-> requestDump,
              flushed |-> flushOnly,
              sent |-> IF ~invoked THEN "none" ELSE IF sendOk THEN "ok" ELSE "fail",
              prevBc |-> lastBroadcastTime,
              onDisk |-> key \in P.onDisk,
              lbSame |-> R.lastBc[key] = P.lastBc[key],
              odSame |-> (key \in R.onDisk) = (key \in P.onDisk)]}]

\* ------------------------------------------------- writing data to disk
\* onConfigMetricsReportLocked.
onConfigMetricsReportLocked(P, key, erase_data) ==
    IF ~P.mgr[key].present THEN P
    ELSE IF hasRestrictedMetricsDelegate(P.mgr[key]) THEN P
    ELSE [P EXCEPT !.mgr[key] = managerOnDumpReport(@, erase_data),
                   !.log.mgrDumped = @ \cup {key}]

\* WriteDataToDiskLocked(key, ...).  shouldWrite: what the manager's
\* shouldWriteToDisk() returns.
WriteDataToDiskLockedKey(P, key, shouldWrite) ==
    IF ~P.mgr[key].present \/ ~shouldWrite THEN P
    ELSE IF hasRestrictedMetricsDelegate(P.mgr[key])
    THEN [P EXCEPT !.mgr[key] = flushRestrictedData(@),
                   !.log.toDisk = @ \cup {key},
                   !.log.flushed = @ \cup {key}]
    ELSE LET P1 == onConfigMetricsReportLocked(P, key, TRUE)
         IN [P1 EXCEPT !.log.toDisk = @ \cup {key},
                       !.log.files = @ \cup {key},
                       !.onDisk = @ \cup {key}]

RECURSIVE WriteAllKeys(_, _, _)
WriteAllKeys(P, i, shouldWrite) ==
    IF i > Len(KeyOrder) THEN P
    ELSE WriteAllKeys(WriteDataToDiskLockedKey(P, KeyOrder[i], shouldWrite),
                      i + 1, shouldWrite)

WriteDataToDiskLocked_coolDownInclusive(P, elapsedRealtimeNs, shouldWrite) ==
    IF elapsedRealtimeNs <= P.lastWrite + WRITE_DATA_COOL_DOWN THEN P
    ELSE WriteAllKeys([P EXCEPT !.lastWrite = elapsedRealtimeNs], 1, shouldWrite)
\* WriteDataToDiskLocked(reason, latency, elapsedRealtimeNs, wallClockNs).
WriteDataToDiskLocked(P, elapsedRealtimeNs, shouldWrite) ==
    IF elapsedRealtimeNs < P.lastWrite + WRITE_DATA_COOL_DOWN THEN P
    ELSE WriteAllKeys([P EXCEPT !.lastWrite = elapsedRealtimeNs], 1, shouldWrite)


\* --------------------------------------------------- OnConfigUpdatedLocked
UpdatedManager_keepOnInvalid(configValid, rebuild, newManager, it, active) ==
    IF ~configValid THEN it
    ELSE IF rebuild THEN newManager
    ELSE [it EXCEPT !.active = active]
\* The map entry of the key after the update: erased if the config is not
\* valid, the new manager after a rebuild, else the manager updated in place.
UpdatedManager(configValid, rebuild, newManager, it, active) ==
    IF ~configValid THEN NoManager
    ELSE IF rebuild THEN newManager
    ELSE [it EXCEPT !.active = active]

\* config: [valid, restricted, active]: whether the StatsdConfig validates,
\* whether it names a restricted-metrics delegate package, and whether the
\* manager built from it is active.  isU: isAtLeastU().
OnConfigUpdatedLocked(P, key, config, modularUpdateIn, isU) ==
    LET it == P.mgr[key]
        found == it.present
        modularUpdate ==
            IF isU /\ found /\ hasRestrictedMetricsDelegate(it) # config.restricted
            THEN FALSE ELSE modularUpdateIn
        rebuild == ~modularUpdate \/ ~found
        configValid == isConfigValid(config, isU)
        newManager == Manager(config.restricted, config.active, 0)
        bcasts ==
            IF configValid
            THEN IF rebuild
                 THEN IF config.restricted THEN {[key |-> key, empty |-> FALSE]}
                      ELSE IF found /\ hasRestrictedMetricsDelegate(it)
                      THEN {[key |-> key, empty |-> TRUE]}
                      ELSE {}
                 ELSE IF hasRestrictedMetricsDelegate(it)
                      THEN {[key |-> key, empty |-> FALSE]}
                      ELSE {}
            ELSE IF isU /\ found /\ hasRestrictedMetricsDelegate(it)
                 THEN {[key |-> key, empty |-> TRUE]}
                 ELSE {}
        manager == UpdatedManager(configValid, rebuild, newManager, it, config.active)
    IN [P EXCEPT !.mgr[key] = manager,
                 !.log.rmBcasts = @ \cup bcasts]

\* resetConfigsLocked(timestampNs, configs) for one key.  diskConfig is what
\* StorageManager::readConfigFromDisk yields: diskConfig.read tells whether
\* it succeeded.
resetConfigsLocked(P, key, diskConfig, isU) ==
    IF ~diskConfig.read THEN P
    ELSE OnConfigUpdatedLocked(P, key, diskConfig, FALSE, isU)

\* resetIfConfigTtlExpiredLocked.  expired: the key whose manager is out of
\* its time-to-live at the event's timestamp, or NoKey.
resetIfConfigTtlExpiredLocked(P, expired, diskConfig, t, shouldWrite, isU) ==
    IF expired = NoKey \/ ~P.mgr[expired].present THEN P
    ELSE resetConfigsLocked(
             WriteDataToDiskLocked([P EXCEPT !.log.expired = expired], t, shouldWrite),
             expired, diskConfig, isU)

\* ---------------------------------------------------- anomaly alarm slot
\* One millisecond, in ticks.
NS_PER_MS == 2
MillisToNano(ms) == ms * NS_PER_MS
NanoToMillis(ns) == ns \div NS_PER_MS
AlarmDue_strict(slot, elapsedRealtimeNs) ==
    slot # 0 /\ MillisToNano(slot) < elapsedRealtimeNs
\* The check OnLogEvent makes under mAnomalyAlarmMutex.
AlarmDue(slot, elapsedRealtimeNs) ==
    slot # 0 /\ MillisToNano(slot) <= elapsedRealtimeNs

SlotAfter_cancelKeeps(ins, slot, v, elapsedRealtimeNs) ==
    CASE ins = "check" -> IF AlarmDue(slot, elapsedRealtimeNs) THEN 0 ELSE slot
      [] ins = "set" -> v
      [] OTHER -> slot
\* mNextAnomalyAlarmTime after the alarm check of OnLogEvent ("check"),
\* setAnomalyAlarm(v) ("set") and cancelAnomalyAlarm ("clear").
SlotAfter(ins, slot, v, elapsedRealtimeNs) ==
    CASE ins = "check" -> IF AlarmDue(slot, elapsedRealtimeNs) THEN 0 ELSE slot
      [] ins = "set" -> v
      [] OTHER -> 0

\* ---------------------------------------------- validateAppBreadcrumbEvent
AID_STATSD == 1066
validateAppBreadcrumbEvent_anyState(event) ==
    IF event.tag # "APP_BREADCRUMB_REPORTED" THEN TRUE
    ELSE IF event.crumb.uidErr THEN FALSE
    ELSE IF event.crumb.loggerUid # event.crumb.appHookUid
            /\ event.crumb.loggerUid # AID_STATSD THEN FALSE
    ELSE IF event.crumb.stateErr THEN FALSE
    ELSE TRUE
\* event.crumb: [uidErr, appHookUid, loggerUid, stateErr, appHookState].
validateAppBreadcrumbEvent(event) ==
    IF event.tag # "APP_BREADCRUMB_REPORTED" THEN TRUE
    ELSE IF event.crumb.uidErr THEN FALSE
    ELSE IF event.crumb.loggerUid # event.crumb.appHookUid
            /\ event.crumb.loggerUid # AID_STATSD THEN FALSE
    ELSE IF event.crumb.stateErr THEN FALSE
    ELSE IF event.crumb.appHookState < 0 \/ event.crumb.appHookState > 3 THEN FALSE
    ELSE TRUE


\* ------------------------------------------------------------ OnLogEvent
\* flushRestrictedDataLocked: every manager's flushRestrictedData.
flushRestrictedDataLocked(P, elapsedRealtimeNs) ==
    [P EXCEPT !.mgr = [k \in Keys |-> IF @[k].present THEN flushRestrictedData(@[k])
                                      ELSE @[k]],
              !.log.flushed = @ \cup {k \in Keys : hasRestrictedMetricsDelegate(P.mgr[k])},
              !.lastFlush = elapsedRealtimeNs]

flushRestrictedDataIfNecessaryLocked(P, elapsedRealtimeNs, isU) ==
    IF ~isU THEN P
    ELSE IF elapsedRealtimeNs - P.lastFlush < kMinFlushRestrictedPeriodNs THEN P
    ELSE flushRestrictedDataLocked(P, elapsedRealtimeNs)

SkipManager_never(event, m) == FALSE
\* if (event->isRestricted() && !pair.second->hasRestrictedMetricsDelegate())
\* continue;
SkipManager(event, m) == event.restricted /\ ~hasRestrictedMetricsDelegate(m)

\* The loop that passes the event to the metrics managers.
\* in.grow, in.flip: the managers the event adds data to / whose activation
\* state it changes;  in.sendOk: the keys mSendBroadcast returns true for.
RECURSIVE DispatchLoop(_, _, _, _, _)
DispatchLoop(P, i, event, in, t) ==
    IF i > Len(KeyOrder) THEN P
    ELSE
    LET key == KeyOrder[i]
        m == P.mgr[key]
    IN
    IF ~m.present THEN DispatchLoop(P, i + 1, event, in, t)
    ELSE IF SkipManager(event, m)
    THEN DispatchLoop(P, i + 1, event, in, t)
    ELSE
    LET uid == GetUid(key)
        isPrevActive == m.active
        m1 == managerOnLogEvent(m, key \in in.grow, key \in in.flip)
        isCurActive == m1.active
        P1 == [P EXCEPT
                 !.mgr[key] = m1,
                 !.log.delivered = @ \cup {key},
                 !.log.onLogEventCalls = @ + 1,
                 !.activeConfigsPerUid[uid] =
                     IF isCurActive THEN @ \cup {GetId(key)} ELSE @,
                 !.uidsWithActiveConfigsChanged =
                     IF isPrevActive # isCurActive THEN @ \cup {uid} ELSE @]
    IN DispatchLoop(flushIfNecessaryLocked(P1, key, t, key \in in.sendOk),
                    i + 1, event, in, t)

\* GetActiveConfigsLocked(uid, outActiveConfigs): the ids it collects.
GetActiveConfigsLocked(P, uid) ==
    {GetId(k) : k \in {x \in PresentKeys(P) : GetUid(x) = uid /\ P.mgr[x].active}}

ActivationLimited_never(lastBroadcastTime, t) == FALSE
\* The activation broadcast is skipped within
\* kMinActivationBroadcastPeriodNs of the last.
ActivationLimited(lastBroadcastTime, t) ==
    /\ lastBroadcastTime # NoTime
    /\ t - lastBroadcastTime < kMinActivationBroadcastPeriodNs

\* The loop over uidsWithActiveConfigsChanged, walked in the order given.
\* actOk: the uids mSendActivationBroadcast returns true for.
RECURSIVE ActivationLoop(_, _, _, _, _)
ActivationLoop(P, order, i, actOk, elapsedRealtimeNs) ==
    IF i > Len(order) THEN P
    ELSE
    LET uid == order[i]
        lastBroadcastTime == P.lastAct[uid]
    IN
    IF uid \notin P.uidsWithActiveConfigsChanged
    THEN ActivationLoop(P, order, i + 1, actOk, elapsedRealtimeNs)
    ELSE IF ActivationLimited(lastBroadcastTime, elapsedRealtimeNs)
    THEN [P EXCEPT !.log.actHits = @ \cup {uid}]
    ELSE
    LET ok == uid \in actOk
        call == [uid |-> uid, ids |-> P.activeConfigsPerUid[uid], ok |-> ok,
                 prev |-> lastBroadcastTime]
    IN ActivationLoop([P EXCEPT !.log.actCalls = @ \cup {call},
                                !.lastAct[uid] = IF ok THEN elapsedRealtimeNs ELSE @],
                      order, i + 1, actOk, elapsedRealtimeNs)

\* OnLogEvent(event, elapsedRealtimeNs): the processor, the train info on
\* disk and the alarm slot after the call.
OnLogEvent(P0, disk, slot, event, in, t, isU) ==
    LET P == [P0 EXCEPT !.log.op = "OnLogEvent", !.log.tag = event.tag,
                        !.log.valid = event.valid,
                        !.log.authorized = event.hasDump /\ event.hasUsage,
                        !.log.crumb = event.crumb,
                        !.log.restricted = event.restricted] IN
    IF ~event.valid THEN [P |-> P, disk |-> disk, slot |-> slot]
    ELSE
    LET fix == IF event.tag = "BINARY_PUSH_STATE_CHANGED"
               THEN onBinaryPushStateChangedEventLocked(disk, event)
               ELSE IF event.tag = "WATCHDOG_ROLLBACK_OCCURRED"
               THEN onWatchdogRollbackOccurredLocked(disk, event)
               ELSE [disk |-> disk, patched |-> FALSE, ids |-> <<>>,
                     call |-> NoRollbackCall, push |-> NoPushCall]
        P1 == resetIfConfigTtlExpiredLocked([P EXCEPT !.log.patched = fix.patched,
                                                      !.log.rollback = fix.call,
                                                      !.log.push = fix.push],
                                            in.expired, in.diskConfig, t,
                                            in.shouldWrite, isU)
    IN
    IF PresentKeys(P1) = {} THEN [P |-> P1, disk |-> fix.disk, slot |-> slot]
    ELSE
    LET fireAlarm == AlarmDue(slot, t)
        slot1 == SlotAfter("check", slot, 0, t)
        P2 == flushRestrictedDataIfNecessaryLocked(
                  [P1 EXCEPT !.log.alarmFired = fireAlarm], t, isU)
    IN
    IF ~validateAppBreadcrumbEvent(event)
    THEN [P |-> P2, disk |-> fix.disk, slot |-> slot1]
    ELSE [P |-> ActivationLoop(DispatchLoop(P2, 1, event, in, t),
                               in.order, 1, in.actOk, t),
          disk |-> fix.disk, slot |-> slot1]


\* ------------------------------------------------ the other handlers
\* OnConfigUpdated(timestampNs, wallClockNs, key, config, modularUpdate).
OnConfigUpdated(P0, key, config, modularUpdate, shouldWrite, isU) ==
    LET P == [P0 EXCEPT !.log.op = "OnConfigUpdated", !.log.key = key]
    IN OnConfigUpdatedLocked(WriteDataToDiskLockedKey(P, key, shouldWrite),
                             key, config, modularUpdate, isU)

EraseManager_keep(mgr, key) == mgr
\* mMetricsManagers.erase(it).
EraseManager(mgr, key) == [mgr EXCEPT ![key] = NoManager]

\* OnConfigRemoved(key).
OnConfigRemoved(P0, key, shouldWrite, isU) ==
    LET P == [P0 EXCEPT !.log.op = "OnConfigRemoved", !.log.key = key]
        it == P.mgr[key]
        P1 == IF it.present
              THEN LET W == WriteDataToDiskLockedKey(P, key, shouldWrite)
                   IN [W EXCEPT
                         !.log.rmBcasts =
                             IF isU /\ hasRestrictedMetricsDelegate(it)
                             THEN @ \cup {[key |-> key, empty |-> TRUE]} ELSE @,
                         !.mgr = EraseManager(@, key)]
              ELSE P
        uid == GetUid(key)
        lastConfigForUid == \A k \in PresentKeys(P1) : GetUid(k) # uid
    IN [P1 EXCEPT !.lastBc[key] = NoTime,
                  !.lastByte[key] = NoTime,
                  !.reportNum[key] = NoTime,
                  !.lastAct[uid] = IF lastConfigForUid THEN NoTime ELSE @]

DumpRefused_never(it) == FALSE
\* The early return of onDumpReport for a restricted manager.
DumpRefused(it) == it.present /\ hasRestrictedMetricsDelegate(it)

\* onDumpReport(key, ..., erase_data, ..., proto).
onDumpReport(P0, key, erase_data) ==
    LET P == [P0 EXCEPT !.log.op = "onDumpReport", !.log.key = key]
        it == P.mgr[key]
    IN
    IF DumpRefused(it) THEN P
    ELSE
    LET P1 == IF it.present
              THEN onConfigMetricsReportLocked([P EXCEPT !.lastBc[key] = NoTime],
                                               key, erase_data)
              ELSE P
        number == IF P1.reportNum[key] = NoTime THEN 0 ELSE P1.reportNum[key]
    IN [P1 EXCEPT !.log.dumpOut = TRUE,
                  !.reportNum[key] = IF erase_data THEN number + 1 ELSE number]

\* WriteDataToDisk(reason, latency, elapsedRealtimeNs, wallClockNs).
WriteDataToDisk(P0, elapsedRealtimeNs, shouldWrite) ==
    WriteDataToDiskLocked([P0 EXCEPT !.log.op = "WriteDataToDisk",
                                     !.log.shouldWrite = shouldWrite],
                          elapsedRealtimeNs, shouldWrite)

\* noteOnDiskData(key).
noteOnDiskData(P0, key) ==
    [P0 EXCEPT !.log.op = "noteOnDiskData", !.log.key = key,
               !.onDisk = @ \cup {key}]

\* ---------------------------------------------------------- querySql
getRestrictedConfigKeysToQueryLocked_unvalidated(P, validates, configId, configPackageUids) ==
    {k \in Keys : P.mgr[k].present /\ GetId(k) = configId
                     /\ GetUid(k) \in configPackageUids}
\* getRestrictedConfigKeysToQueryLocked.  validates: the keys whose manager's
\* validateRestrictedMetricsDelegate(callingUid) holds.
getRestrictedConfigKeysToQueryLocked(P, validates, configId, configPackageUids) ==
    LET matchedConfigKeys ==
            {k \in Keys : P.mgr[k].present /\ GetId(k) = configId
                             /\ GetUid(k) \in configPackageUids}
        excludedKeys == {k \in matchedConfigKeys : k \notin validates}
    IN matchedConfigKeys \ excludedKeys

\* querySql.  q: [configId, uids, validates, versionOk, queryOk, columnsOk,
\* rowsOk]: the config id asked for, the uids of configPackage, the keys whose
\* delegate validates callingUid, minSqlClientVersion <= getDbVersion(), what
\* dbutils::query returns, columnNames.size() = columnTypes.size(), and every
\* row having columnNames.size() entries.
querySql(P0, q, elapsedRealtimeNs, isU) ==
    LET P == [P0 EXCEPT !.log.op = "querySql",
                        !.log.query = [configId |-> q.configId, uids |-> q.uids,
                                       validates |-> q.validates]]
        keysToQuery ==
            getRestrictedConfigKeysToQueryLocked(P, q.validates, q.configId, q.uids)
        Failed(Q) == [Q EXCEPT !.log.failures = @ + 1, !.log.noted = @ + 1]
    IN
    IF ~isU THEN [P EXCEPT !.log.noted = @ + 1]
    ELSE IF ~q.versionOk THEN Failed(P)
    ELSE IF keysToQuery = {} THEN Failed(P)
    ELSE IF Cardinality(keysToQuery) > 1 THEN Failed(P)
    ELSE
    LET P1 == [flushRestrictedDataLocked(P, elapsedRealtimeNs)
                  EXCEPT !.log.ttlEnforced = TRUE, !.log.queried = keysToQuery]
    IN
    IF ~q.queryOk THEN Failed(P1)
    ELSE
    \* no return after the failure reported for the column sizes
    LET P2 == IF ~q.columnsOk THEN Failed(P1) ELSE P1 IN
    IF ~q.rowsOk THEN Failed(P2)
    ELSE [P2 EXCEPT !.log.results = @ + 1]

\* ------------------------------------------------------------- inputs
Configs == [valid : BOOLEAN, restricted : BOOLEAN, active : BOOLEAN]
ValidConfigs == {c \in Configs : c.valid}
ReadFailed == [read |-> FALSE, valid |-> FALSE, restricted |-> FALSE, active |-> FALSE]
DiskConfigs ==
    [read : {TRUE}, valid : BOOLEAN, restricted : BOOLEAN, active : BOOLEAN]
        \cup {ReadFailed}
\* The orders in which a set of uids can be walked.
UidOrders(U) ==
    {o \in UNION {[1..n -> U] : n \in 0..Cardinality(U)} :
        /\ Len(o) = Cardinality(U)
        /\ \A i, j \in 1..Len(o) : i # j => o[i] # o[j]}
UidsOf(K) == {GetUid(k) : k \in K}

\* A valid, unrestricted event of an ordinary atom.
PlainEvent ==
    [tag |-> "OTHER", valid |-> TRUE, restricted |-> FALSE,
     hasDump |-> TRUE, hasUsage |-> TRUE, parseOk |-> TRUE,
     isRollback |-> FALSE, trainInfo |-> NoTrainInfo, uninit |-> NoBits,
     rollbackType |-> "UNKNOWN", packageName |-> "", crumb |-> GoodCrumb]
RestrictedEvent == [PlainEvent EXCEPT !.restricted = TRUE]
InvalidEvent == [PlainEvent EXCEPT !.valid = FALSE]
BadCrumbEvent ==
    [PlainEvent EXCEPT !.tag = "APP_BREADCRUMB_REPORTED", !.crumb.appHookState = 4]

\* The inputs of an OnLogEvent call besides the event: the managers the
\* event adds data to (grow) and whose activation state it changes (flip),
\* the keys and uids the two broadcast callbacks succeed for (sendOk, actOk),
\* the order the changed uids are walked in, the key whose time-to-live has
\* expired at the event's timestamp and what is read back from disk for it.
EventInputs(Grow, Flip, SendOk, ActOk, Orders, Expired, FromDisk, ShouldWrite) ==
    {[grow |-> g, flip |-> f, sendOk |-> s, actOk |-> a, order |-> o,
      expired |-> e, diskConfig |-> d, shouldWrite |-> w] :
        g \in Grow, f \in Flip, s \in SendOk, a \in ActOk, o \in Orders,
        e \in Expired, d \in FromDisk, w \in ShouldWrite}

\* ------------------------------------ DurationTracker::addAnomalyTracker
Alerts == {1, 2}
UpdateStatuses == {"UPDATE_NEW", "UPDATE_PRESERVE", "UPDATE_REPLACE"}
NoAdd ==
    [alert |-> 0, updateStatus |-> "UPDATE_UNKNOWN", updateTimeNs |-> 0,
     predicted |-> 0, hasStarted |-> FALSE, startAlarm |-> FALSE, alarmTimeNs |-> 0]

\* addAnomalyTracker(anomalyTracker, updateStatus, updateTimeNs).
\* predicted: what predictAnomalyTimestampNs(*anomalyTracker, updateTimeNs)
\* returns; hasStarted: hasStartedDuration().  Returns the tracker list,
\* whether anomalyTracker->startAlarm(mEventKey, t) was called, and t.
addAnomalyTracker(trackers, anomalyTracker, updateStatus, updateTimeNs, predicted, hasStarted) ==
    LET alarmTimeNs == predicted
        set == /\ updateStatus = "UPDATE_NEW" \/ updateStatus = "UPDATE_PRESERVE"
               /\ alarmTimeNs <= updateTimeNs \/ hasStarted
    IN [trackers |-> Append(trackers, anomalyTracker),
        startAlarm |-> set,
        alarmTimeNs |-> IF set THEN Max(alarmTimeNs, updateTimeNs) ELSE 0]

\* ------------------------------------------------ MultiConditionTrigger
\* The threads that call markComplete and the detached executor threads.
Callers == {1, 2}
Executors == {3, 4}
NoThread == 0
CondNames == {"a", "b"}
\* A name that is in no condition set.
OtherName == "c"

\* MultiConditionTrigger(conditionNames, trigger): the fields after the
\* initializer list, and whether the body starts the executor thread.
MultiConditionTrigger(names) ==
    [remaining |-> names, completed |-> names = {}, spawn |-> names = {}]

markComplete_noReturn(remaining, completed, conditionName) ==
    LET r == remaining \ {conditionName}
    IN [remaining |-> r, completed |-> r = {}, doTrigger |-> r = {}, locked |-> FALSE]
markComplete_neverTriggers(remaining, completed, conditionName) ==
    IF completed
    THEN [remaining |-> remaining, completed |-> completed, doTrigger |-> FALSE,
          locked |-> FALSE]
    ELSE LET r == remaining \ {conditionName}
         IN [remaining |-> r, completed |-> r = {}, doTrigger |-> FALSE,
             locked |-> FALSE]
markComplete_dispatchInside(remaining, completed, conditionName) ==
    IF completed
    THEN [remaining |-> remaining, completed |-> completed, doTrigger |-> FALSE,
          locked |-> FALSE]
    ELSE LET r == remaining \ {conditionName}
         IN [remaining |-> r, completed |-> r = {}, doTrigger |-> r = {},
             locked |-> r = {}]
\* markComplete(conditionName): the block under the lock_guard.  The fields
\* at its closing brace, doTrigger, and whether mMutex is still locked
\* after the brace.
markComplete(remaining, completed, conditionName) ==
    IF completed
    THEN [remaining |-> remaining, completed |-> completed, doTrigger |-> FALSE,
          locked |-> FALSE]
    ELSE LET r == remaining \ {conditionName}
         IN [remaining |-> r, completed |-> r = {}, doTrigger |-> r = {},
             locked |-> FALSE]

\* ------------------------------------------------------------ actions
Threads == {1, 2, 3}
\* A thread that is not inside the processor.
Idle == [op |-> "idle", i |-> 0]

SetProc(P) ==
    /\ mMetricsManagers' = P.mgr
    /\ mLastBroadcastTimes' = P.lastBc
    /\ mLastByteSizeTimes' = P.lastByte
    /\ mDumpReportNumbers' = P.reportNum
    /\ mLastActivationBroadcastTimes' = P.lastAct
    /\ mOnDiskDataConfigs' = P.onDisk
    /\ mLastWriteTimeNs' = P.lastWrite
    /\ mLastFlushRestrictedTime' = P.lastFlush
    /\ log' = P.log

\* The history of the data-ready and activation broadcasts a call sent.
NoteSent(P) ==
    /\ lastSent' = [k \in Keys |->
            IF \E c \in P.log.checks : c.key = k /\ c.sent = "ok" THEN now
            ELSE lastSent[k]]
    /\ sentCleared' = [k \in Keys |->
            IF \E c \in P.log.checks : c.key = k /\ c.sent = "ok" THEN FALSE
            ELSE sentCleared[k]]
    /\ lastActSent' = [u \in Uids |->
            IF \E c \in P.log.actCalls : c.uid = u /\ c.ok THEN now
            ELSE lastActSent[u]]
    /\ actCleared' = [u \in Uids |->
            IF \E c \in P.log.actCalls : c.uid = u /\ c.ok THEN FALSE
            ELSE actCleared[u]]

UpdateOutcome(config) == IF isConfigValid(config, atLeastU) THEN "valid" ELSE "invalid"

\* The clock advances, up to a bound.
TickUpTo(max) ==
    /\ now < max
    /\ now' = now + 1
    /\ log' = [EmptyLog EXCEPT !.op = "Tick"]
    /\ UNCHANGED <<atLeastU, procVars, mNextAnomalyAlarmTime, trainInfoOnDisk,
                   histVars, lockVars, saveVars,
                   alarmCancelled, trackerVars, obsVars, triggerVars, alertVars>>
Tick == TickUpTo(MaxTime)
\* The clock of the specifications that follow two writes a cool-down apart.
LongTick == TickUpTo(MaxLongTime)

\* History: the keys whose byteSize() the operation computed and the keys
\* it wrote a report file for, stamped with the time of the operation.
Observe(removedKeys) ==
    IF observing
    THEN /\ lastChecked' = [k \in Keys |->
                IF \E c \in log'.checks : c.key = k THEN now ELSE lastChecked[k]]
         /\ forgotten' = (forgotten \cup removedKeys) \ {c.key : c \in log'.checks}
         /\ lastFile' = [k \in Keys |->
                IF k \in log'.files THEN now ELSE lastFile[k]]
         /\ UNCHANGED observing
    ELSE UNCHANGED obsVars

LogEventStep(event, in) ==
    LET r == OnLogEvent(Proc, trainInfoOnDisk, mNextAnomalyAlarmTime, event, in,
                        now, atLeastU)
        reset == /\ event.valid
                 /\ in.expired # NoKey
                 /\ mMetricsManagers[in.expired].present
                 /\ in.diskConfig.read
    IN /\ SetProc(r.P)
       /\ trainInfoOnDisk' = r.disk
       /\ mNextAnomalyAlarmTime' = r.slot
       /\ NoteSent(r.P)
       /\ lastUpdate' = IF reset
                        THEN [lastUpdate EXCEPT ![in.expired] = UpdateOutcome(in.diskConfig)]
                        ELSE lastUpdate
       /\ UNCHANGED <<now, atLeastU, removed, lockVars, saveVars,
                   alarmCancelled, trackerVars, triggerVars, alertVars>>
       /\ Observe({})

ConfigUpdatedStep(key, config, modularUpdate, shouldWrite) ==
    /\ SetProc(OnConfigUpdated(Proc, key, config, modularUpdate, shouldWrite, atLeastU))
    /\ removed' = removed \ {key}
    /\ lastUpdate' = [lastUpdate EXCEPT ![key] = UpdateOutcome(config)]
    /\ UNCHANGED <<now, atLeastU, mNextAnomalyAlarmTime, trainInfoOnDisk,
                   lastSent, sentCleared, lastActSent, actCleared, lockVars, saveVars,
                   alarmCancelled, trackerVars, triggerVars, alertVars>>
    /\ Observe({})

ConfigRemovedStep(key, shouldWrite) ==
    LET P == OnConfigRemoved(Proc, key, shouldWrite, atLeastU)
        uid == GetUid(key)
    IN /\ SetProc(P)
       /\ removed' = removed \cup {key}
       /\ sentCleared' = [sentCleared EXCEPT ![key] = lastSent[key] # NoTime]
       /\ actCleared' = [actCleared EXCEPT ![uid] =
              IF P.lastAct[uid] = NoTime THEN lastActSent[uid] # NoTime ELSE @]
       /\ UNCHANGED <<now, atLeastU, mNextAnomalyAlarmTime, trainInfoOnDisk,
                      lastUpdate, lastSent, lastActSent, lockVars, saveVars,
                   alarmCancelled, trackerVars, triggerVars, alertVars>>
       /\ Observe({key})

DumpReportStep(key, erase_data) ==
    LET P == onDumpReport(Proc, key, erase_data)
    IN /\ erase_data => mDumpReportNumbers[key] < MaxReports
       /\ SetProc(P)
       /\ sentCleared' = [sentCleared EXCEPT ![key] =
              IF P.lastBc[key] = NoTime THEN lastSent[key] # NoTime ELSE @]
       /\ UNCHANGED <<now, atLeastU, mNextAnomalyAlarmTime, trainInfoOnDisk,
                      removed, lastUpdate, lastSent, lastActSent, actCleared, lockVars, saveVars,
                   alarmCancelled, trackerVars, obsVars, triggerVars, alertVars>>

WriteDataToDiskStep(shouldWrite) ==
    /\ SetProc(WriteDataToDisk(Proc, now, shouldWrite))
    /\ UNCHANGED <<now, atLeastU, mNextAnomalyAlarmTime, trainInfoOnDisk,
                   histVars, lockVars, saveVars,
                   alarmCancelled, trackerVars, triggerVars, alertVars>>
    /\ Observe({})

NoteOnDiskDataStep(key) ==
    /\ key \notin mOnDiskDataConfigs
    /\ SetProc(noteOnDiskData(Proc, key))
    /\ UNCHANGED <<now, atLeastU, mNextAnomalyAlarmTime, trainInfoOnDisk,
                   histVars, lockVars, saveVars,
                   alarmCancelled, trackerVars, obsVars, triggerVars, alertVars>>

InitProcessor ==
    /\ now = 0
    /\ mMetricsManagers = [k \in Keys |-> NoManager]
    /\ mLastBroadcastTimes = [k \in Keys |-> NoTime]
    /\ mLastByteSizeTimes = [k \in Keys |-> NoTime]
    /\ mDumpReportNumbers = [k \in Keys |-> NoTime]
    /\ mLastActivationBroadcastTimes = [u \in Uids |-> NoTime]
    /\ mOnDiskDataConfigs = {}
    /\ mLastWriteTimeNs = 0
    /\ mLastFlushRestrictedTime = 0
    /\ mNextAnomalyAlarmTime = 0
    /\ trainInfoOnDisk = [n \in TrainNames |-> NoTrain]
    /\ log = EmptyLog
    /\ removed = {}
    /\ lastUpdate = [k \in Keys |-> "none"]
    /\ lastSent = [k \in Keys |-> NoTime]
    /\ sentCleared = [k \in Keys |-> FALSE]
    /\ lastActSent = [u \in Uids |-> NoTime]
    /\ actCleared = [u \in Uids |-> FALSE]
    /\ pc = [t \in Threads |-> Idle]
    /\ mutexOwner = [metrics |-> NoThread, anomaly |-> NoThread]
    /\ mLastActiveMetricsWriteNs = 0
    /\ mLastMetadataWriteNs = 0
    /\ savedFiles = [active_metrics |-> NoTime, metadata |-> NoTime]
    /\ lastWrote = [active_metrics |-> NoTime, metadata |-> NoTime]
    /\ alarmCancelled = FALSE
\* No duration key has started.
InitTracker ==
    /\ durationInfo = DurationInfo
    /\ mDuration = 0
    /\ startedAndTrue = 0
\* No anomaly tracker has been added and no alarm is set.
InitAlerts ==
    /\ mAnomalyTrackers = <<>>
    /\ alarms = [a \in Alerts |-> NoTime]
    /\ lastAdd = NoAdd
\* The trigger after construction with the given names.
InitTrigger(names) ==
    LET c == MultiConditionTrigger(names)
    IN /\ conditionNames = names
       /\ mRemainingConditionNames = c.remaining
       /\ mCompleted = c.completed
       /\ mMutex = NoThread
       /\ tpc = [t \in Callers \cup Executors |->
                   IF t \in Callers THEN [at |-> "idle", name |-> ""]
                   ELSE IF c.spawn /\ t = 3 THEN [at |-> "spawned", name |-> ""]
                   ELSE [at |-> "none", name |-> ""]]
       /\ triggered = 0
       /\ marked = {}
InitHistory ==
    /\ forgotten = {}
    /\ lastChecked = [k \in Keys |-> NoTime]
    /\ lastFile = [k \in Keys |-> NoTime]

InitCommon ==
    /\ InitProcessor
    /\ InitTracker
    /\ mNested = FALSE
    /\ mCondition = TRUE
    /\ InitHistory
    /\ InitAlerts
    /\ InitTrigger(CondNames)
    /\ observing = FALSE

\* ------------------------------------ Spec: the flush and broadcast engine
\* One config key; events that add data; dumps, updates and removals.
Key1 == <<1, 1>>
FlushInputs ==
    EventInputs(SUBSET PresentKeys(Proc), {{}}, {{}, Keys}, {Uids}, {<<>>},
                {NoKey}, {ReadFailed}, {TRUE})

Init ==
    /\ atLeastU = TRUE
    /\ InitCommon

LogEvent ==
    \E event \in {PlainEvent, RestrictedEvent, InvalidEvent, BadCrumbEvent} :
        \E in \in FlushInputs : LogEventStep(event, in)
ConfigUpdated ==
    \E config \in {c \in ValidConfigs : c.active}, shouldWrite \in BOOLEAN :
        ConfigUpdatedStep(Key1, config, FALSE, shouldWrite)
ConfigRemoved ==
    \E shouldWrite \in BOOLEAN : ConfigRemovedStep(Key1, shouldWrite)
DumpReport ==
    \E erase_data \in BOOLEAN : DumpReportStep(Key1, erase_data)
NoteOnDisk == NoteOnDiskDataStep(Key1)

Next ==
    \/ Tick
    \/ LogEvent
    \/ ConfigUpdated
    \/ ConfigRemoved
    \/ DumpReport
    \/ NoteOnDisk

Spec == Init /\ [][Next]_vars

\* ---------------------- SpecAct: removal and the activation broadcasts
\* Two config keys of one uid; events that change the activation state of
\* the managers; updates and removals.
ActKeys == {<<1, 1>>, <<1, 2>>}
ActInputs ==
    EventInputs({{}}, SUBSET PresentKeys(Proc), {{}}, {{}, Uids},
                UidOrders(UidsOf(ActKeys)), {NoKey}, {ReadFailed}, {TRUE})

ActLogEvent == \E in \in ActInputs : LogEventStep(PlainEvent, in)
ActConfigUpdated ==
    \E key \in ActKeys, config \in {c \in ValidConfigs : ~c.restricted} :
        ConfigUpdatedStep(key, config, FALSE, FALSE)
ActConfigRemoved == \E key \in ActKeys : ConfigRemovedStep(key, FALSE)


NextAct ==
    \/ Tick
    \/ ActLogEvent
    \/ ActConfigUpdated
    \/ ActConfigRemoved

SpecAct == Init /\ [][NextAct]_vars

\* ------------------------------ SpecRemoved: what follows a removal
\* The two keys of SpecAct; one of them can have data on disk, so that
\* data-ready broadcasts are sent for it; both broadcast callbacks succeed.
RmInputs ==
    EventInputs({{}}, SUBSET PresentKeys(Proc), {Keys}, {Uids},
                UidOrders(UidsOf(ActKeys)), {NoKey}, {ReadFailed}, {TRUE})

RmLogEvent == \E in \in RmInputs : LogEventStep(PlainEvent, in)
RmNoteOnDisk == NoteOnDiskDataStep(<<1, 2>>)

NextRemoved ==
    \/ Tick
    \/ RmLogEvent
    \/ ActConfigUpdated
    \/ ActConfigRemoved
    \/ RmNoteOnDisk

SpecRemoved == Init /\ [][NextRemoved]_vars

\* ------------------------------ SpecHistory: checks and files over time
\* One config key that is updated, removed, written to disk and reset from
\* disk when its time-to-live is over; the history of its byte-size checks
\* and of its report files is kept.
InitObserving ==
    /\ atLeastU = TRUE
    /\ InitProcessor
    /\ InitTracker
    /\ mNested = FALSE
    /\ mCondition = TRUE
    /\ InitHistory
    /\ InitAlerts
    /\ InitTrigger(CondNames)
    /\ observing = TRUE

HistInputs ==
    EventInputs(SUBSET PresentKeys(Proc), {{}}, {Keys}, {Uids}, {<<>>}, {NoKey, Key1},
                {[read |-> TRUE, valid |-> TRUE, restricted |-> FALSE,
                  active |-> TRUE]},
                {TRUE})
HistLogEvent == \E in \in HistInputs : LogEventStep(PlainEvent, in)
HistConfigUpdated ==
    ConfigUpdatedStep(Key1, [valid |-> TRUE, restricted |-> FALSE, active |-> TRUE],
                      FALSE, TRUE)
HistConfigRemoved == ConfigRemovedStep(Key1, TRUE)
HistWriteDataToDisk == WriteDataToDiskStep(TRUE)

NextHistory ==
    \/ Tick
    \/ HistLogEvent
    \/ HistConfigUpdated
    \/ HistConfigRemoved
    \/ HistWriteDataToDisk

SpecHistory == InitObserving /\ [][NextHistory]_vars

\* ------------------------------ SpecTrigger: the MultiConditionTrigger
\* Two threads call markComplete with names in and out of the set; the
\* trigger runs on an executor thread and may call markComplete itself.
notTrigger ==
    <<now, atLeastU, procVars, mNextAnomalyAlarmTime, trainInfoOnDisk, log, histVars,
      lockVars, saveVars, alarmCancelled, trackerVars, obsVars, alertVars>>

InitTriggers ==
    /\ atLeastU = TRUE
    /\ InitProcessor
    /\ InitTracker
    /\ mNested = FALSE
    /\ mCondition = TRUE
    /\ InitHistory
    /\ InitAlerts
    /\ observing = FALSE
    /\ \E names \in SUBSET CondNames : InitTrigger(names)

\* Where a thread is after markComplete returns.
Returned(t) ==
    IF t \in Callers THEN [at |-> "idle", name |-> ""] ELSE [at |-> "done", name |-> ""]

\* A thread calls markComplete(name) and reaches the lock_guard.
MarkCompleteCall(t, name) ==
    /\ tpc[t].at = "idle"
    /\ tpc' = [tpc EXCEPT ![t] = [at |-> "lock", name |-> name]]
    /\ marked' = marked \cup {name}
    /\ UNCHANGED <<conditionNames, mRemainingConditionNames, mCompleted, mMutex,
                   triggered, notTrigger>>

\* std::lock_guard<std::mutex> lg(mMutex).
TriggerLock(t) ==
    /\ tpc[t].at = "lock"
    /\ mMutex = NoThread
    /\ mMutex' = t
    /\ tpc' = [tpc EXCEPT ![t].at = "section"]
    /\ UNCHANGED <<conditionNames, mRemainingConditionNames, mCompleted, triggered,
                   marked, notTrigger>>

\* The block under the lock, to its closing brace.
TriggerSection(t) ==
    LET r == markComplete(mRemainingConditionNames, mCompleted, tpc[t].name)
    IN /\ tpc[t].at = "section"
       /\ mRemainingConditionNames' = r.remaining
       /\ mCompleted' = r.completed
       /\ mMutex' = IF r.locked THEN t ELSE NoThread
       /\ tpc' = [tpc EXCEPT ![t] = IF r.doTrigger THEN [@ EXCEPT !.at = "dispatch"]
                                     ELSE Returned(t)]
       /\ UNCHANGED <<conditionNames, triggered, marked, notTrigger>>

\* if (doTrigger): the executor thread is created and detached.
TriggerDispatch(t) ==
    /\ tpc[t].at = "dispatch"
    /\ \E e \in Executors :
          /\ tpc[e].at = "none"
          /\ \A f \in Executors : f < e => tpc[f].at # "none"
          /\ tpc' = [tpc EXCEPT ![t] = Returned(t),
                                ![e] = [at |-> "spawned", name |-> ""]]
    /\ UNCHANGED <<conditionNames, mRemainingConditionNames, mCompleted, mMutex,
                   triggered, marked, notTrigger>>

\* The executor thread is scheduled and invokes mTrigger.
ExecutorStart(e) ==
    /\ tpc[e].at = "spawned"
    /\ triggered' = triggered + 1
    /\ tpc' = [tpc EXCEPT ![e].at = "inTrigger"]
    /\ UNCHANGED <<conditionNames, mRemainingConditionNames, mCompleted, mMutex,
                   marked, notTrigger>>

\* mTrigger calls markComplete(name) before it returns.
TriggerCallsBack(e, name) ==
    /\ tpc[e].at = "inTrigger"
    /\ tpc' = [tpc EXCEPT ![e] = [at |-> "lock", name |-> name]]
    /\ marked' = marked \cup {name}
    /\ UNCHANGED <<conditionNames, mRemainingConditionNames, mCompleted, mMutex,
                   triggered, notTrigger>>

\* mTrigger returns.
TriggerReturns(e) ==
    /\ tpc[e].at = "inTrigger"
    /\ tpc' = [tpc EXCEPT ![e].at = "done"]
    /\ UNCHANGED <<conditionNames, mRemainingConditionNames, mCompleted, mMutex,
                   triggered, marked, notTrigger>>

TrgCall == \E t \in Callers, name \in CondNames \cup {OtherName} : MarkCompleteCall(t, name)
TrgLock == \E t \in Callers \cup Executors : TriggerLock(t)
TrgSection == \E t \in Callers \cup Executors : TriggerSection(t)
TrgDispatch == \E t \in Callers \cup Executors : TriggerDispatch(t)
TrgStart == \E e \in Executors : ExecutorStart(e)
TrgCallsBack == \E e \in Executors, name \in CondNames \cup {OtherName} : TriggerCallsBack(e, name)
TrgReturns == \E e \in Executors : TriggerReturns(e)

NextTrigger ==
    \/ TrgCall
    \/ TrgLock
    \/ TrgSection
    \/ TrgDispatch
    \/ TrgStart
    \/ TrgCallsBack
    \/ TrgReturns

SpecTrigger == InitTriggers /\ [][NextTrigger]_vars

\* The scheduler runs a created executor thread, and the thread that left
\* the block with doTrigger set goes on to create it.
SpecTriggerLive ==
    /\ SpecTrigger
    /\ WF_vars(TrgStart)
    /\ WF_vars(TrgDispatch)

\* ------------------------------ SpecAlarm: the anomaly alarm slot
\* One config key that is updated, removed and reset from disk, so that the
\* manager map is empty at times; the alarm is set and cancelled between
\* events.  setAnomalyAlarm and cancelAnomalyAlarm are one critical section
\* each, taken here as one step.
SetAnomalyAlarmStep(elapsedTimeMillis) ==
    /\ mNextAnomalyAlarmTime' =
           SlotAfter("set", mNextAnomalyAlarmTime, elapsedTimeMillis, now)
    /\ alarmCancelled' = IF elapsedTimeMillis = 0 THEN alarmCancelled ELSE FALSE
    /\ log' = [EmptyLog EXCEPT !.op = "setAnomalyAlarm"]
    /\ UNCHANGED <<now, atLeastU, procVars, trainInfoOnDisk, histVars, lockVars,
                   saveVars, trackerVars, obsVars, triggerVars, alertVars>>
CancelAnomalyAlarmStep ==
    /\ mNextAnomalyAlarmTime' = SlotAfter("clear", mNextAnomalyAlarmTime, 0, now)
    /\ alarmCancelled' = TRUE
    /\ log' = [EmptyLog EXCEPT !.op = "cancelAnomalyAlarm"]
    /\ UNCHANGED <<now, atLeastU, procVars, trainInfoOnDisk, histVars, lockVars,
                   saveVars, trackerVars, obsVars, triggerVars, alertVars>>

AlarmInputs ==
    EventInputs({{}}, {{}}, {{}}, {Uids}, {<<>>}, {NoKey, Key1},
                {ReadFailed} \cup {d \in DiskConfigs : d.read /\ d.active /\ ~d.restricted},
                {FALSE})
AlarmLogEvent ==
    \E event \in {PlainEvent, InvalidEvent}, in \in AlarmInputs :
        LogEventStep(event, in)
AlarmSet == \E v \in 0..2 : SetAnomalyAlarmStep(v)

NextAlarm ==
    \/ Tick
    \/ AlarmLogEvent
    \/ ConfigUpdated
    \/ ConfigRemoved
    \/ AlarmSet
    \/ CancelAnomalyAlarmStep

SpecAlarm == Init /\ [][NextAlarm]_vars

\* --------------- SpecSave: the active-configs and the metadata file
SaveRefused_never(timeNs, lastWriteNs) == FALSE
\* "Do not write to disk if we already have in the last few seconds."
SaveRefused(timeNs, lastWriteNs) == timeNs < lastWriteNs + WRITE_DATA_COOL_DOWN

\* SaveActiveConfigsToDisk(currentTimeNs).  openOk: whether the file could be
\* opened after the old one was deleted.  A file is modelled by the time its
\* content was written at, NoTime if there is none.
SaveActiveConfigsToDiskStep(openOk) ==
    /\ log' = [EmptyLog EXCEPT !.op = "SaveActiveConfigsToDisk"]
    /\ IF SaveRefused(now, mLastActiveMetricsWriteNs)
       THEN UNCHANGED <<mLastActiveMetricsWriteNs, savedFiles, lastWrote>>
       ELSE /\ mLastActiveMetricsWriteNs' = now
            /\ savedFiles' = [savedFiles EXCEPT
                                 !.active_metrics = IF openOk THEN now ELSE NoTime]
            /\ lastWrote' = [lastWrote EXCEPT
                                 !.active_metrics = IF openOk THEN now ELSE @]
    /\ UNCHANGED <<now, atLeastU, procVars, mNextAnomalyAlarmTime, trainInfoOnDisk,
                   histVars, lockVars, mLastMetadataWriteNs, alarmCancelled, trackerVars, obsVars, triggerVars, alertVars>>

\* SaveMetadataToDisk(currentWallClockTimeNs, systemElapsedTimeNs).  empty:
\* the metadata list has no entry, so the file is deleted and not written.
SaveMetadataToDiskStep(systemElapsedTimeNs, empty) ==
    /\ log' = [EmptyLog EXCEPT !.op = "SaveMetadataToDisk"]
    /\ IF SaveRefused(systemElapsedTimeNs, mLastMetadataWriteNs)
       THEN UNCHANGED <<mLastMetadataWriteNs, savedFiles, lastWrote>>
       ELSE /\ mLastMetadataWriteNs' = systemElapsedTimeNs
            /\ savedFiles' = [savedFiles EXCEPT
                                 !.metadata = IF empty THEN NoTime
                                              ELSE systemElapsedTimeNs]
            /\ lastWrote' = [lastWrote EXCEPT
                                 !.metadata = IF empty THEN @ ELSE systemElapsedTimeNs]
    /\ UNCHANGED <<now, atLeastU, procVars, mNextAnomalyAlarmTime, trainInfoOnDisk,
                   histVars, lockVars, mLastActiveMetricsWriteNs, alarmCancelled, trackerVars, obsVars, triggerVars, alertVars>>

SaveActiveConfigs == \E openOk \in BOOLEAN : SaveActiveConfigsToDiskStep(openOk)
SaveMetadata == \E empty \in BOOLEAN : SaveMetadataToDiskStep(now, empty)

NextSave ==
    \/ LongTick
    \/ SaveActiveConfigs
    \/ SaveMetadata

SpecSave == Init /\ [][NextSave]_vars

\* --------------- SpecTtl: time-to-live resets and writes to disk
\* One config key without a restricted delegate whose manager should write
\* to disk; events add data and find the config out of its time-to-live;
\* all configs are written to disk at any time.
TtlInputs ==
    EventInputs(SUBSET PresentKeys(Proc), {{}}, {{}}, {Uids}, {<<>>}, {NoKey, Key1},
                {ReadFailed, [read |-> TRUE, valid |-> TRUE, restricted |-> FALSE,
                              active |-> TRUE]},
                {TRUE})
TtlLogEvent == \E in \in TtlInputs : LogEventStep(PlainEvent, in)
TtlConfigUpdated ==
    \E config \in {c \in ValidConfigs : c.active} :
        ConfigUpdatedStep(Key1, config, FALSE, TRUE)
TtlWriteDataToDisk == \E shouldWrite \in BOOLEAN : WriteDataToDiskStep(shouldWrite)

NextTtl ==
    \/ LongTick
    \/ TtlLogEvent
    \/ TtlConfigUpdated
    \/ TtlWriteDataToDisk

SpecTtl == Init /\ [][NextTtl]_vars

\* ------------------- SpecUids: activation broadcasts of two uids
\* One config key for each of two uids; an event may change the activation
\* state of both managers, and the set of changed uids is walked in either
\* order; mSendActivationBroadcast succeeds.
UidKeys == {<<1, 1>>, <<2, 1>>}
UidInputs ==
    EventInputs({{}}, SUBSET PresentKeys(Proc), {{}}, {Uids},
                UidOrders(UidsOf(UidKeys)), {NoKey}, {ReadFailed}, {TRUE})

UidLogEvent == \E in \in UidInputs : LogEventStep(PlainEvent, in)
UidConfigUpdated ==
    \E key \in UidKeys, config \in {c \in ValidConfigs : ~c.restricted} :
        ConfigUpdatedStep(key, config, FALSE, FALSE)

NextUids ==
    \/ Tick
    \/ UidLogEvent
    \/ UidConfigUpdated

SpecUids == Init /\ [][NextUids]_vars

\* ------------------------- SpecConfig: the life cycle of one config key
\* Valid and invalid configs, with and without a restricted-metrics
\* delegate, full and modular updates, resets from disk when the
\* time-to-live expires, dumps and writes to disk, on U and below.
ConfigInputs ==
    EventInputs({{}}, {{}}, {Keys}, {Uids}, {<<>>}, {NoKey}, {ReadFailed}, {TRUE})
        \cup EventInputs({{}}, {{}}, {Keys}, {Uids}, {<<>>}, {Key1},
                         {d \in DiskConfigs : d.active} \cup {ReadFailed}, BOOLEAN)

InitConfig ==
    /\ atLeastU \in BOOLEAN
    /\ InitCommon

CfgLogEvent == \E in \in ConfigInputs : LogEventStep(PlainEvent, in)
CfgConfigUpdated ==
    \E config \in {c \in Configs : c.active}, modularUpdate \in BOOLEAN,
       shouldWrite \in BOOLEAN :
        ConfigUpdatedStep(Key1, config, modularUpdate, shouldWrite)
CfgConfigRemoved == \E shouldWrite \in BOOLEAN : ConfigRemovedStep(Key1, shouldWrite)
CfgDumpReport == \E erase_data \in BOOLEAN : DumpReportStep(Key1, erase_data)
CfgWriteDataToDisk == \E shouldWrite \in BOOLEAN : WriteDataToDiskStep(shouldWrite)

NextConfig ==
    \/ Tick
    \/ CfgLogEvent
    \/ CfgConfigUpdated
    \/ CfgConfigRemoved
    \/ CfgDumpReport
    \/ CfgWriteDataToDisk

SpecConfig == InitConfig /\ [][NextConfig]_vars

\* ------------------------------------ SpecQuery: restricted queries
\* The same config id under two uids, with and without a restricted
\* delegate, on U and below; queries for either id, from packages with any
\* of the uids, by callers that any of the restricted managers validates.
Queries ==
    [configId : {1, 2}, uids : SUBSET Uids,
     validates : SUBSET {k \in UidKeys : hasRestrictedMetricsDelegate(mMetricsManagers[k])},
     versionOk : BOOLEAN, queryOk : BOOLEAN, columnsOk : BOOLEAN, rowsOk : BOOLEAN]
QuerySqlStep(q) ==
    /\ SetProc(querySql(Proc, q, now, atLeastU))
    /\ UNCHANGED <<now, atLeastU, mNextAnomalyAlarmTime, trainInfoOnDisk,
                   histVars, lockVars, saveVars, alarmCancelled, trackerVars, obsVars, triggerVars, alertVars>>
QuerySql == \E q \in Queries : QuerySqlStep(q)
QueryConfigUpdated ==
    \E key \in UidKeys, config \in {c \in ValidConfigs : c.active} :
        ConfigUpdatedStep(key, config, FALSE, FALSE)

NextQuery ==
    \/ Tick
    \/ QuerySql
    \/ QueryConfigUpdated

SpecQuery == InitConfig /\ [][NextQuery]_vars

\* ------------------- SpecTrain: the fix-up of the two privileged atoms
\* BINARY_PUSH_STATE_CHANGED and WATCHDOG_ROLLBACK_OCCURRED events from
\* callers with and without the two permissions, with one config installed
\* or none.
AllBits ==
    [requiresStaging |-> TRUE, rollbackEnabled |-> TRUE,
     requiresLowLatencyMonitor |-> TRUE]
TrainInfos ==
    {[NoTrainInfo EXCEPT !.trainName = "X", !.trainVersionCode = v,
                         !.status = "INSTALL_SUCCESS", !.experimentIds = e] :
        v \in {-1, 1}, e \in {<<>>, <<10>>}}
\* The events of a caller with the permissions d and u.
BinaryPushEvents(d, u) ==
    {[PlainEvent EXCEPT !.tag = "BINARY_PUSH_STATE_CHANGED", !.hasDump = d,
                        !.hasUsage = u, !.isRollback = r, !.trainInfo = ti,
                        !.uninit = x] :
        r \in BOOLEAN, ti \in TrainInfos, x \in {NoBits, AllBits}}
WatchdogRollbackEvents(d, u) ==
    {[PlainEvent EXCEPT !.tag = "WATCHDOG_ROLLBACK_OCCURRED", !.hasDump = d,
                        !.hasUsage = u, !.rollbackType = rt, !.packageName = n] :
        rt \in {"ROLLBACK_INITIATE", "ROLLBACK_SUCCESS", "UNKNOWN"}, n \in {"X", ""}}
\* Events whose fields cannot be read.
Unparsed(E) == {[e EXCEPT !.parseOk = FALSE] : e \in E}
TrainEvents ==
    LET Authorized == BinaryPushEvents(TRUE, TRUE) \cup WatchdogRollbackEvents(TRUE, TRUE)
        Denied == UNION {{[e EXCEPT !.hasDump = p[1], !.hasUsage = p[2]] :
                             e \in {x \in Authorized : x.uninit = NoBits /\ ~x.isRollback}} :
                         p \in {<<FALSE, TRUE>>, <<TRUE, FALSE>>, <<FALSE, FALSE>>}}
    IN Authorized \cup Denied
           \cup Unparsed({e \in Authorized : e.uninit = NoBits /\ ~e.isRollback})
TrainInputs ==
    EventInputs({{}}, {{}}, {Keys}, {Uids}, {<<>>}, {NoKey}, {ReadFailed}, {TRUE})

TrainLogEvent ==
    \E event \in TrainEvents :
        \E in \in TrainInputs : LogEventStep(event, in)
TrainConfigUpdated ==
    ConfigUpdatedStep(Key1, [valid |-> TRUE, restricted |-> FALSE, active |-> TRUE],
                      FALSE, FALSE)
TrainConfigRemoved == ConfigRemovedStep(Key1, FALSE)

NextTrain ==
    \/ TrainLogEvent
    \/ TrainConfigUpdated
    \/ TrainConfigRemoved

SpecTrain == Init /\ [][NextTrain]_vars

\* --------------------------- SpecDuration: one duration key
\* Starts, stops and condition changes of one key at every time, with and
\* without nesting.  A key that ends records its duration in the bucket and
\* is forgotten.
MaxStarts == 2
procAndFiles ==
    <<atLeastU, procVars, mNextAnomalyAlarmTime, trainInfoOnDisk, histVars, lockVars,
      saveVars, alarmCancelled, obsVars>>

InitDuration ==
    /\ atLeastU = TRUE
    /\ InitProcessor
    /\ InitTracker
    /\ InitHistory
    /\ InitAlerts
    /\ InitTrigger(CondNames)
    /\ observing = FALSE
    /\ mNested \in BOOLEAN
    /\ mCondition \in BOOLEAN

\* Time passes; it counts for the key while the key is started and the
\* condition is true.
DurationTick ==
    /\ now < MaxTime
    /\ now' = now + 1
    /\ startedAndTrue' =
           IF durationInfo.state # kStopped /\ mCondition THEN startedAndTrue + 1
           ELSE startedAndTrue
    /\ log' = [EmptyLog EXCEPT !.op = "Tick"]
    /\ UNCHANGED <<durationInfo, mNested, mCondition, mDuration, procAndFiles, triggerVars, alertVars>>

NoteStartStep ==
    /\ durationInfo.startCount < MaxStarts
    /\ durationInfo' = noteStart(durationInfo, mNested, mCondition, now)
    /\ log' = [EmptyLog EXCEPT !.op = "noteStart"]
    /\ UNCHANGED <<now, mNested, mCondition, mDuration, startedAndTrue, procAndFiles, triggerVars, alertVars>>

NoteStopStep ==
    LET r == noteStop(durationInfo, mNested, now)
    IN /\ durationInfo' = IF r.ended THEN DurationInfo ELSE r.info
       /\ mDuration' = IF r.ended THEN mDuration + r.info.lastDuration ELSE mDuration
       /\ log' = [EmptyLog EXCEPT !.op = "noteStop"]
       /\ UNCHANGED <<now, mNested, mCondition, startedAndTrue, procAndFiles, triggerVars, alertVars>>

ConditionChangedStep(condition) ==
    /\ condition # mCondition
    /\ mCondition' = condition
    /\ durationInfo' = onConditionChanged(durationInfo, condition, now)
    /\ log' = [EmptyLog EXCEPT !.op = "onConditionChanged"]
    /\ UNCHANGED <<now, mNested, mDuration, startedAndTrue, procAndFiles, triggerVars, alertVars>>

ConditionChanged == \E condition \in BOOLEAN : ConditionChangedStep(condition)

NextDuration ==
    \/ DurationTick
    \/ NoteStartStep
    \/ NoteStopStep
    \/ ConditionChanged

SpecDuration == InitDuration /\ [][NextDuration]_vars

\* ------------------- SpecDispatch: restricted events and managers
\* Two keys of different uids whose configs do or do not name a
\* restricted-metrics delegate; restricted and unrestricted events that add
\* data to every manager they reach and may change its activation state;
\* the clock stands still.
DispatchInputs ==
    EventInputs({PresentKeys(Proc)}, {{}, PresentKeys(Proc)}, {Keys}, {Uids},
                UidOrders(UidsOf(UidKeys)), {NoKey}, {ReadFailed}, {TRUE})

DispatchLogEvent ==
    \E event \in {PlainEvent, RestrictedEvent} :
        \E in \in DispatchInputs : LogEventStep(event, in)
DispatchConfigUpdated ==
    \E key \in UidKeys, config \in {c \in ValidConfigs : c.active} :
        ConfigUpdatedStep(key, config, FALSE, FALSE)

NextDispatch ==
    \/ DispatchLogEvent
    \/ DispatchConfigUpdated

SpecDispatch == Init /\ [][NextDispatch]_vars

\* ------------------------------ SpecCrumb: APP_BREADCRUMB_REPORTED
\* Breadcrumb events and events of another atom that carry the same fields,
\* well-formed and not: a uid that is or is not the caller's, from statsd or
\* not, a state inside and outside 0..3, fields that cannot be read.
Crumbs ==
    {GoodCrumb,
     [GoodCrumb EXCEPT !.appHookState = 3],
     [GoodCrumb EXCEPT !.appHookState = 4],
     [GoodCrumb EXCEPT !.appHookState = -1],
     [GoodCrumb EXCEPT !.appHookUid = 2],
     [GoodCrumb EXCEPT !.appHookUid = 2, !.loggerUid = AID_STATSD],
     [GoodCrumb EXCEPT !.appHookUid = 2, !.loggerUid = AID_STATSD, !.appHookState = 4],
     [GoodCrumb EXCEPT !.uidErr = TRUE],
     [GoodCrumb EXCEPT !.stateErr = TRUE]}
CrumbEvents ==
    {[PlainEvent EXCEPT !.tag = t, !.crumb = c] :
        t \in {"APP_BREADCRUMB_REPORTED", "OTHER"}, c \in Crumbs}
CrumbInputs ==
    EventInputs({PresentKeys(Proc)}, {{}, PresentKeys(Proc)}, {Keys}, {Uids},
                UidOrders(UidsOf({Key1})), {NoKey}, {ReadFailed}, {TRUE})

CrumbLogEvent ==
    \E event \in CrumbEvents : \E in \in CrumbInputs : LogEventStep(event, in)

CrumbConfigUpdated ==
    ConfigUpdatedStep(Key1, [valid |-> TRUE, restricted |-> FALSE, active |-> TRUE],
                      FALSE, FALSE)

NextCrumb ==
    \/ Tick
    \/ CrumbLogEvent
    \/ CrumbConfigUpdated

SpecCrumb == Init /\ [][NextCrumb]_vars

\* ------------------- SpecKeys: updates and removals of several keys
\* Two keys of one uid that are updated with valid and invalid configs, with
\* and without a restricted-metrics delegate, and removed, before and after
\* they are first added, on U and below.  Events add data and change
\* the activation state, so that there is data to write and bookkeeping to
\* erase; the clock stands still.
KeysInputs ==
    EventInputs({PresentKeys(Proc)}, {{}, PresentKeys(Proc)}, {Keys}, {Uids},
                UidOrders(UidsOf(ActKeys)), {NoKey}, {ReadFailed}, {TRUE})

KeysLogEvent == \E in \in KeysInputs : LogEventStep(PlainEvent, in)
KeysConfigUpdated ==
    \E key \in ActKeys, config \in {c \in Configs : c.active /\ (c.valid \/ ~c.restricted)} :
        ConfigUpdatedStep(key, config, FALSE, TRUE)
KeysConfigRemoved == \E key \in ActKeys : ConfigRemovedStep(key, TRUE)

NextKeys ==
    \/ KeysLogEvent
    \/ KeysConfigUpdated
    \/ KeysConfigRemoved

SpecKeys == InitConfig /\ [][NextKeys]_vars

\* ----------------------------- SpecLimits: the four rate limiters
\* One unrestricted config; events that add data and change the activation
\* state, callbacks that succeed or fail, and requests to save the metadata,
\* at every distance from the previous check, broadcast or save.
LimitInputs ==
    EventInputs(SUBSET PresentKeys(Proc), SUBSET PresentKeys(Proc), {{}, Keys},
                {{}, Uids}, UidOrders(UidsOf({Key1})), {NoKey}, {ReadFailed}, {TRUE})

LimitLogEvent == \E in \in LimitInputs : LogEventStep(PlainEvent, in)
LimitConfigUpdated ==
    ConfigUpdatedStep(Key1, [valid |-> TRUE, restricted |-> FALSE, active |-> TRUE],
                      FALSE, FALSE)
LimitSaveMetadata == \E empty \in BOOLEAN : SaveMetadataToDiskStep(now, empty)

NextLimits ==
    \/ Tick
    \/ LimitLogEvent
    \/ LimitConfigUpdated
    \/ LimitSaveMetadata

SpecLimits == Init /\ [][NextLimits]_vars

\* ------------------- SpecAlerts: anomaly trackers added on an update
\* Alerts are added to one duration tracker as new, preserved or replaced,
\* with a predicted anomaly time before, at or after the update time, while
\* a duration is or is not started.
MaxTrackers == 2
notAlerts ==
    <<atLeastU, procVars, mNextAnomalyAlarmTime, trainInfoOnDisk, log, histVars,
      lockVars, saveVars, alarmCancelled, trackerVars, obsVars, triggerVars>>

AlertTick ==
    /\ now < MaxTime
    /\ now' = now + 1
    /\ UNCHANGED <<alertVars, notAlerts>>

\* AnomalyTracker::startAlarm(key, t) records the alarm of the key.
AddAnomalyTrackerStep(alert, updateStatus, predicted, hasStarted) ==
    LET r == addAnomalyTracker(mAnomalyTrackers, alert, updateStatus, now, predicted,
                               hasStarted)
    IN /\ Len(mAnomalyTrackers) < MaxTrackers
       /\ mAnomalyTrackers' = r.trackers
       /\ alarms' = IF r.startAlarm THEN [alarms EXCEPT ![alert] = r.alarmTimeNs]
                    ELSE alarms
       /\ lastAdd' = [alert |-> alert, updateStatus |-> updateStatus,
                      updateTimeNs |-> now, predicted |-> predicted,
                      hasStarted |-> hasStarted, startAlarm |-> r.startAlarm,
                      alarmTimeNs |-> r.alarmTimeNs]
       /\ UNCHANGED <<now, notAlerts>>

AddAnomalyTracker ==
    \E alert \in Alerts, updateStatus \in UpdateStatuses,
       predicted \in 0..(MaxTime + 1), hasStarted \in BOOLEAN :
        AddAnomalyTrackerStep(alert, updateStatus, predicted, hasStarted)

NextAlerts ==
    \/ AlertTick
    \/ AddAnomalyTracker

SpecAlerts == Init /\ [][NextAlerts]_vars

\* ------------------- SpecActive: the ids of the activation broadcast
\* Two configs of one uid, with or without a restricted delegate, active or
\* not; plain and restricted events that change activation states.
ActiveInputs ==
    EventInputs({{}}, SUBSET PresentKeys(Proc), {{}}, {Uids},
                UidOrders(UidsOf(ActKeys)), {NoKey}, {ReadFailed}, {TRUE})
ActiveLogEvent ==
    \E event \in {PlainEvent, RestrictedEvent} :
        \E in \in ActiveInputs : LogEventStep(event, in)
ActiveConfigUpdated ==
    \E key \in ActKeys, config \in ValidConfigs :
        ConfigUpdatedStep(key, config, FALSE, FALSE)

NextActive ==
    \/ Tick
    \/ ActiveLogEvent
    \/ ActiveConfigUpdated

SpecActive == Init /\ [][NextActive]_vars

\* ------------------- SpecPush: the train record across binary pushes
\* Binary-push events, rollback or not, with and without a version and
\* experiment ids, with the three bits set or clear.
PushTrainInfos ==
    {[NoTrainInfo EXCEPT !.trainName = "X", !.trainVersionCode = v,
                         !.status = "INSTALL_SUCCESS", !.experimentIds = e,
                         !.requiresStaging = b, !.rollbackEnabled = b,
                         !.requiresLowLatencyMonitor = b] :
        v \in {-1, 1, 2}, e \in {<<>>, <<10>>, <<20>>}, b \in BOOLEAN}
PushEvents ==
    {[PlainEvent EXCEPT !.tag = "BINARY_PUSH_STATE_CHANGED", !.isRollback = r,
                        !.trainInfo = ti] :
        r \in BOOLEAN, ti \in PushTrainInfos}

PushLogEvent ==
    \E event \in PushEvents :
        \E in \in TrainInputs : LogEventStep(event, in)

NextPush == PushLogEvent

SpecPush == Init /\ [][NextPush]_vars

\* ------------- SpecFixUp: the train info across privileged events
\* Authorized, well-formed events of the two privileged atoms arrive while no
\* config is installed, so that OnLogEvent is the fix-up alone.  The pushes
\* carry each of the three statuses that have a marker, a version that is
\* absent (-1) or given, hence equal to or different from the stored one, and
\* experiment ids that are absent or start with the stored first id.
RollbackTypes == {"ROLLBACK_INITIATE", "ROLLBACK_SUCCESS", "UNKNOWN"}
FixUpTrainInfos ==
    {[NoTrainInfo EXCEPT !.trainName = "X", !.trainVersionCode = v,
                         !.status = st, !.experimentIds = e] :
        v \in {-1, 1}, e \in {<<>>, <<10>>},
        st \in {"INSTALL_SUCCESS", "INSTALLER_ROLLBACK_INITIATED",
                "INSTALLER_ROLLBACK_SUCCESS"}}
FixUpEvents ==
    {[PlainEvent EXCEPT !.tag = "BINARY_PUSH_STATE_CHANGED", !.isRollback = r,
                        !.trainInfo = ti] :
        r \in BOOLEAN, ti \in FixUpTrainInfos}
    \cup {[PlainEvent EXCEPT !.tag = "WATCHDOG_ROLLBACK_OCCURRED",
                             !.rollbackType = rt, !.packageName = n] :
            rt \in RollbackTypes, n \in {"X", ""}}

FixUpLogEvent ==
    \E event \in FixUpEvents :
        \E in \in TrainInputs : LogEventStep(event, in)

NextFixUp == FixUpLogEvent

SpecFixUp == Init /\ [][NextFixUp]_vars

\* ------------------------------------- SpecLock: the two mutexes
\* Threads call the operations concurrently.  An operation is the sequence
\* of its lock_guard scopes and of what it does to the alarm slot inside
\* them.
Lock(m) == [ins |-> "lock", mutex |-> m]
Unlock(m) == [ins |-> "unlock", mutex |-> m]
\* The alarm check of OnLogEvent and the assignments of the two setters.
CheckSlot == [ins |-> "check", mutex |-> "anomaly"]
SetSlot == [ins |-> "set", mutex |-> "anomaly"]
ClearSlot == [ins |-> "clear", mutex |-> "anomaly"]
\* mMetricsManagers.find(key), and the assignment or erase that changes the
\* map; the mutex field names the mutex that is documented to guard the map.
FindManager == [ins |-> "find", mutex |-> "metrics"]
StoreManager == [ins |-> "store", mutex |-> "metrics"]

\* The alarm check of OnLogEvent taken apart: the test of the slot, and the
\* assignment of 0 and of fireAlarm that follows a true test; then the call
\* of informAnomalyAlarmFiredLocked after the scope.
ReadSlot == [ins |-> "read", mutex |-> "anomaly"]
ResetSlot == [ins |-> "reset", mutex |-> "anomaly"]
FireAlarm == [ins |-> "fire", mutex |-> "metrics"]

setAnomalyAlarm_noLock == <<SetSlot>>
setAnomalyAlarm_takesMetrics ==
    <<Lock("anomaly"), Lock("metrics"), SetSlot, Unlock("metrics"), Unlock("anomaly")>>
\* setAnomalyAlarm: lock_guard(mAnomalyAlarmMutex); mNextAnomalyAlarmTime = t.
setAnomalyAlarm == <<Lock("anomaly"), SetSlot, Unlock("anomaly")>>
\* cancelAnomalyAlarm: lock_guard(mAnomalyAlarmMutex); mNextAnomalyAlarmTime = 0.
cancelAnomalyAlarm == <<Lock("anomaly"), ClearSlot, Unlock("anomaly")>>
\* The alarm check of OnLogEvent, in its own scope.
AlarmCheckScope == <<Lock("anomaly"), CheckSlot, Unlock("anomaly")>>

\* The operations.  OnLogEvent holds mMetricsMutex throughout; a manager or
\* an alarm monitor it calls may set or cancel the alarm on the way.
LockOps ==
    {"OnLogEvent", "OnLogEvent/setAnomalyAlarm", "OnLogEvent/cancelAnomalyAlarm",
     "setAnomalyAlarm", "cancelAnomalyAlarm",
     "OnConfigUpdated", "OnConfigRemoved", "onDumpReport",
     "GetMetricsSize", "getLastReportTimeNs"}
Program(op) ==
    CASE op = "OnLogEvent" ->
            <<Lock("metrics")>> \o AlarmCheckScope \o <<Unlock("metrics")>>
      [] op = "OnLogEvent/setAnomalyAlarm" ->
            <<Lock("metrics")>> \o AlarmCheckScope \o setAnomalyAlarm
                \o <<Unlock("metrics")>>
      [] op = "OnLogEvent/cancelAnomalyAlarm" ->
            <<Lock("metrics")>> \o AlarmCheckScope \o cancelAnomalyAlarm
                \o <<Unlock("metrics")>>
      [] op = "setAnomalyAlarm" -> setAnomalyAlarm
      [] op = "OnLogEvent/alarm" ->
            <<Lock("metrics"), Lock("anomaly"), ReadSlot, ResetSlot, Unlock("anomaly"),
              FireAlarm, Unlock("metrics")>>
      [] op = "cancelAnomalyAlarm" -> cancelAnomalyAlarm
      [] op \in {"OnConfigUpdated", "OnConfigRemoved"} ->
            <<Lock("metrics"), FindManager, StoreManager, Unlock("metrics")>>
      [] op = "GetMetricsSize" ->
            <<Lock("metrics"), FindManager, Unlock("metrics")>>
      \* getLastReportTimeNs has no lock_guard.
      [] op = "getLastReportTimeNs" -> <<FindManager>>
      [] OTHER -> <<Lock("metrics"), Unlock("metrics")>>

\* The instruction a thread is at.
At(t) == Program(pc[t].op)[pc[t].i]
Advance(t) ==
    pc' = [pc EXCEPT ![t] = IF @.i = Len(Program(@.op)) THEN Idle
                            ELSE [@ EXCEPT !.i = @ + 1]]
\* The alarm times set, in millis.
AlarmTimes == {1}

\* A thread enters an operation.
Call(t, op) ==
    /\ pc[t] = Idle
    /\ pc' = [pc EXCEPT ![t] = [op |-> op, i |-> 1]]
    /\ UNCHANGED <<now, atLeastU, procVars, mNextAnomalyAlarmTime, trainInfoOnDisk,
                   log, histVars, mutexOwner, saveVars,
                   alarmCancelled, trackerVars, obsVars, triggerVars, alertVars>>
\* std::lock_guard's constructor: waits until the mutex is free.
Acquire(t) ==
    /\ pc[t] # Idle
    /\ At(t).ins = "lock"
    /\ mutexOwner[At(t).mutex] = NoThread
    /\ mutexOwner' = [mutexOwner EXCEPT ![At(t).mutex] = t]
    /\ Advance(t)
    /\ UNCHANGED <<now, atLeastU, procVars, mNextAnomalyAlarmTime, trainInfoOnDisk,
                   log, histVars, saveVars,
                   alarmCancelled, trackerVars, obsVars, triggerVars, alertVars>>
\* std::lock_guard's destructor.
Release(t) ==
    /\ pc[t] # Idle
    /\ At(t).ins = "unlock"
    /\ mutexOwner' = [mutexOwner EXCEPT ![At(t).mutex] = NoThread]
    /\ Advance(t)
    /\ UNCHANGED <<now, atLeastU, procVars, mNextAnomalyAlarmTime, trainInfoOnDisk,
                   log, histVars, saveVars,
                   alarmCancelled, trackerVars, obsVars, triggerVars, alertVars>>
\* What the thread does to mNextAnomalyAlarmTime inside the scope.
TouchSlot(t) ==
    /\ pc[t] # Idle
    /\ At(t).ins \in {"check", "set", "clear"}
    /\ \E v \in AlarmTimes :
          /\ mNextAnomalyAlarmTime' =
                 SlotAfter(At(t).ins, mNextAnomalyAlarmTime, v, now)
          /\ alarmCancelled' =
                 CASE At(t).ins = "check" -> alarmCancelled
                   [] At(t).ins = "set" -> IF v = 0 THEN alarmCancelled ELSE FALSE
                   [] OTHER -> TRUE
    /\ Advance(t)
    /\ UNCHANGED <<now, atLeastU, procVars, trainInfoOnDisk, log, histVars,
                   mutexOwner, saveVars, trackerVars, obsVars, triggerVars, alertVars>>
\* The thread reads or changes mMetricsManagers.
AccessMap(t) ==
    /\ pc[t] # Idle
    /\ At(t).ins \in {"find", "store"}
    /\ Advance(t)
    /\ UNCHANGED <<now, atLeastU, procVars, mNextAnomalyAlarmTime, trainInfoOnDisk,
                   log, histVars, mutexOwner, saveVars,
                   alarmCancelled, trackerVars, obsVars, triggerVars, alertVars>>

LockCall == \E t \in Threads, op \in LockOps : Call(t, op)
LockAcquire == \E t \in Threads : Acquire(t)
LockRelease == \E t \in Threads : Release(t)
LockTouchSlot == \E t \in Threads : TouchSlot(t)
LockAccessMap == \E t \in Threads : AccessMap(t)

NextLock ==
    \/ Tick
    \/ LockCall
    \/ LockAcquire
    \/ LockRelease
    \/ LockTouchSlot
    \/ LockAccessMap

SpecLock == Init /\ [][NextLock]_vars

\* ------------------------------ SpecSlot: the alarm check step by step
\* Threads call OnLogEvent and setAnomalyAlarm concurrently; the alarm check
\* of OnLogEvent is a test of the slot followed by its reset.  A thread that
\* has made the test carries the slot value it found due (0: none) in
\* pc[t].seen.
SlotTimes == {1, 2}

SlotCall ==
    \E t \in Threads, op \in {"OnLogEvent/alarm", "setAnomalyAlarm"} : Call(t, op)
\* mNextAnomalyAlarmTime = elapsedTimeMillis.
SlotSet(t) ==
    /\ pc[t] # Idle
    /\ At(t).ins = "set"
    /\ \E v \in SlotTimes :
          mNextAnomalyAlarmTime' = SlotAfter("set", mNextAnomalyAlarmTime, v, now)
    /\ alarmCancelled' = FALSE
    /\ Advance(t)
    /\ UNCHANGED <<now, atLeastU, procVars, trainInfoOnDisk, log, histVars,
                   mutexOwner, saveVars, trackerVars, obsVars, triggerVars, alertVars>>
\* if (mNextAnomalyAlarmTime != 0 && MillisToNano(...) <= elapsedRealtimeNs).
SlotRead(t) ==
    /\ pc[t] # Idle
    /\ At(t).ins = "read"
    /\ pc' = [pc EXCEPT ![t] =
                 [op |-> @.op, i |-> @.i + 1,
                  seen |-> IF AlarmDue(mNextAnomalyAlarmTime, now)
                           THEN mNextAnomalyAlarmTime ELSE 0]]
    /\ UNCHANGED <<now, atLeastU, procVars, mNextAnomalyAlarmTime, trainInfoOnDisk,
                   log, histVars, mutexOwner, saveVars,
                   alarmCancelled, trackerVars, obsVars, triggerVars, alertVars>>
\* mNextAnomalyAlarmTime = 0; fireAlarm = true: the body of the if.
SlotReset(t) ==
    /\ pc[t] # Idle
    /\ At(t).ins = "reset"
    /\ mNextAnomalyAlarmTime' = IF pc[t].seen # 0 THEN 0 ELSE mNextAnomalyAlarmTime
    /\ Advance(t)
    /\ UNCHANGED <<now, atLeastU, procVars, trainInfoOnDisk, log, histVars,
                   mutexOwner, saveVars, alarmCancelled, trackerVars, obsVars,
                   triggerVars, alertVars>>
\* if (fireAlarm) informAnomalyAlarmFiredLocked(...).
SlotFire(t) ==
    /\ pc[t] # Idle
    /\ At(t).ins = "fire"
    /\ Advance(t)
    /\ UNCHANGED <<now, atLeastU, procVars, mNextAnomalyAlarmTime, trainInfoOnDisk,
                   log, histVars, mutexOwner, saveVars,
                   alarmCancelled, trackerVars, obsVars, triggerVars, alertVars>>

SlotSetStep == \E t \in Threads : SlotSet(t)
SlotReadStep == \E t \in Threads : SlotRead(t)
SlotResetStep == \E t \in Threads : SlotReset(t)
SlotFireStep == \E t \in Threads : SlotFire(t)

NextSlot ==
    \/ Tick
    \/ SlotCall
    \/ LockAcquire
    \/ LockRelease
    \/ SlotSetStep
    \/ SlotReadStep
    \/ SlotResetStep
    \/ SlotFireStep

SpecSlot == Init /\ [][NextSlot]_vars

\* --------------------------------------------------------- properties
\* The keys the last call sent a data-ready broadcast for.
SentKeys(l) == {c.key : c \in {d \in l.checks : d.sent = "ok"}}

\* C2 (as stated): any two successful sendBroadcast(key) are at least
\* kMinBroadcastPeriodNs apart, over every sequence of OnLogEvent,
\* onDumpReport, OnConfigUpdated and OnConfigRemoved calls.
C2_AnyTwoBroadcastsApart ==
    [][\A k \in SentKeys(log') :
          lastSent[k] # NoTime => now' - lastSent[k] >= kMinBroadcastPeriodNs]_vars

\* C2 (amended): two successful sendBroadcast(key) with no onDumpReport(key)
\* and no OnConfigRemoved(key) between them are at least
\* kMinBroadcastPeriodNs apart.
C2_BroadcastsApartUnlessCleared ==
    [][\A k \in SentKeys(log') :
          (lastSent[k] # NoTime /\ ~sentCleared[k])
              => now' - lastSent[k] >= kMinBroadcastPeriodNs]_vars

\* A second broadcast for a key was admitted by the rate limit.
C2_Witness ==
    \E c \in log.checks : c.sent = "ok" /\ c.prevBc # NoTime /\ lastSent[c.key] = now

\* C4 (as stated): at every return from OnLogEvent every manager in the map
\* has byteSize() <= getMaxMetricsBytes().
C4_AllWithinMaxAtReturn ==
    log.op = "OnLogEvent" =>
        \A k \in Keys : mMetricsManagers[k].present
                            => mMetricsManagers[k].bytes <= MaxMetricsBytes

\* C4 (amended): at every return from OnLogEvent every manager whose byte
\* size the call checked (the check was not skipped by the rate limit) has
\* byteSize() <= getMaxMetricsBytes().
C4_CheckedWithinMaxAtReturn ==
    log.op = "OnLogEvent" =>
        \A c \in log.checks :
            /\ mMetricsManagers[c.key].present
            /\ mMetricsManagers[c.key].bytes <= MaxMetricsBytes

\* A check found a manager above its maximum.
C4_Witness ==
    log.op = "OnLogEvent" /\ \E c \in log.checks : c.bytes > MaxMetricsBytes

\* C5: a byte-size check that finds byteSize() > maxMetricsBytes drops the
\* data, records noteDataDropped(key, observed bytes), sends no broadcast and
\* leaves the last-broadcast time and the on-disk mark of the key unchanged.
C5_TooLargeDropsWithoutBroadcast ==
    \A c \in log.checks :
        c.bytes > MaxMetricsBytes =>
            /\ c.cleared
            /\ c.dropped = c.bytes
            /\ c.sent = "none"
            /\ c.lbSame
            /\ c.odSame

\* A check found a manager above its maximum whose key had on-disk data.
C5_Witness ==
    \E c \in log.checks : c.bytes > MaxMetricsBytes /\ c.onDisk

\* C8: sendBroadcast is never invoked for a manager with a restricted-metrics
\* delegate; a dump requested for it flushes to the restricted store.
C8_RestrictedNeverBroadcasts ==
    \A c \in log.checks :
        c.restricted => /\ c.sent = "none"
                        /\ c.requestDump => c.flushed

\* A dump was requested for a restricted manager.
C8_Witness ==
    \E c \in log.checks : c.restricted /\ c.requestDump /\ c.flushed

\* C1: once OnConfigRemoved(key) has returned and until OnConfigUpdated
\* re-adds the key, no operation performs a byte-size check of the key (and so
\* none sends its data-ready broadcast) and no activation broadcast to the
\* key's uid lists the key's id.
C1_RemovedKeyNotMentioned ==
    \A k \in removed :
        /\ \A c \in log.checks : c.key # k
        /\ \A c \in log.actCalls : c.uid = GetUid(k) => GetId(k) \notin c.ids

\* After a key was removed, an event was checked and broadcast for another
\* key of the same uid and an activation broadcast went to that uid.
C1_Witness ==
    \E k \in removed :
        /\ log.op = "OnLogEvent"
        /\ \E c \in log.checks : GetUid(c.key) = GetUid(k) /\ c.sent = "ok"
        /\ \E c \in log.actCalls : c.uid = GetUid(k) /\ c.ids # {}

C6_PresentOnlyIfLastUpdateValid ==
    \A k \in Keys :
        /\ mMetricsManagers[k].present => lastUpdate[k] = "valid"
        /\ lastUpdate[k] = "invalid" => ~mMetricsManagers[k].present

\* An invalid update found a restricted manager under the key and erased it.
C6_Witness ==
    /\ log.op = "OnConfigUpdated"
    /\ lastUpdate[log.key] = "invalid"
    /\ ~mMetricsManagers[log.key].present
    /\ \E b \in log.rmBcasts : b.key = log.key /\ b.empty

\* C7: for a key whose manager has a restricted-metrics delegate,
\* onDumpReport writes nothing to its output, does not call the manager's
\* onDumpReport and leaves the report number and the last-broadcast time
\* unchanged; writing the key's data to disk writes no report file and does
\* not mark the key as having on-disk data: the data is flushed to the
\* restricted store.
C7_RestrictedKeyNeitherDumpedNorWritten ==
    [][\A k \in Keys :
          hasRestrictedMetricsDelegate(mMetricsManagers[k]) =>
              /\ (log'.op = "onDumpReport" /\ log'.key = k) =>
                      /\ ~log'.dumpOut
                      /\ k \notin log'.mgrDumped
                      /\ mDumpReportNumbers'[k] = mDumpReportNumbers[k]
                      /\ mLastBroadcastTimes'[k] = mLastBroadcastTimes[k]
              /\ k \notin log'.files
              /\ k \in log'.toDisk => k \in log'.flushed
              /\ log'.op # "noteOnDiskData" =>
                      (k \in mOnDiskDataConfigs' => k \in mOnDiskDataConfigs)
      ]_vars

\* onDumpReport was called for a restricted key that has a report number
\* and a last-broadcast time.
C7_Witness ==
    /\ log.op = "onDumpReport"
    /\ hasRestrictedMetricsDelegate(mMetricsManagers[log.key])
    /\ ~log.dumpOut
    /\ mLastBroadcastTimes[log.key] # NoTime
    /\ mDumpReportNumbers[log.key] # NoTime

\* The last call was OnLogEvent with an event of a privileged atom whose
\* caller lacks DUMP or PACKAGE_USAGE_STATS.
Unauthorized(l) ==
    /\ l.op = "OnLogEvent"
    /\ l.tag \in {"BINARY_PUSH_STATE_CHANGED", "WATCHDOG_ROLLBACK_OCCURRED"}
    /\ ~l.authorized

Requesting(t, m) == pc[t] # Idle /\ At(t) = Lock(m)
Blocked(t) ==
    \E m \in {"metrics", "anomaly"} : Requesting(t, m) /\ mutexOwner[m] # NoThread

\* C10: no thread requests mMetricsMutex while it holds mAnomalyAlarmMutex,
\* and the concurrent calls never deadlock: while some thread is inside the
\* processor, some thread inside it can take its next step.
C10_NoMetricsInsideAnomalyNoDeadlock ==
    /\ \A t \in Threads : Requesting(t, "metrics") => mutexOwner.anomaly # t
    /\ (\E t \in Threads : pc[t] # Idle)
           => \E t \in Threads : pc[t] # Idle /\ ~Blocked(t)

\* The legal crossing under contention: a thread holds mMetricsMutex and
\* waits for mAnomalyAlarmMutex, which another thread holds, while a third
\* waits for mMetricsMutex.
C10_Witness ==
    \E t1, t2, t3 \in Threads :
        /\ mutexOwner.metrics = t1 /\ Requesting(t1, "anomaly")
        /\ mutexOwner.anomaly = t2 /\ t2 # t1
        /\ Requesting(t3, "metrics")

\* C11: every read or write of the manager map by a public operation happens
\* while the thread holds mMetricsMutex, so no operation looks at the map while
\* OnConfigUpdated or OnConfigRemoved is changing it.
C11_MapAccessHoldsMetricsMutex ==
    \A t \in Threads :
        (pc[t] # Idle /\ At(t).ins \in {"find", "store"})
            => mutexOwner["metrics"] = t

\* The uids with a config whose activation state the step changed.
ChangedUids ==
    {GetUid(k) : k \in {x \in Keys :
        /\ mMetricsManagers[x].present
        /\ mMetricsManagers'[x].present
        /\ mMetricsManagers[x].active # mMetricsManagers'[x].active}}

\* C12: within one OnLogEvent, every uid whose configs changed activation
\* state and which is outside its own activation rate-limit window gets
\* sendActivationBroadcast exactly once, whatever happens to other uids.
C12_EveryChangedUidOutsideItsWindowNotified ==
    [][log'.op = "OnLogEvent" =>
          \A u \in ChangedUids :
              (\/ mLastActivationBroadcastTimes[u] = NoTime
               \/ now - mLastActivationBroadcastTimes[u]
                      >= kMinActivationBroadcastPeriodNs)
                  => Cardinality({c \in log'.actCalls : c.uid = u}) = 1
      ]_vars

C14_CancelIdempotentAndSilences ==
    [][/\ log'.op = "cancelAnomalyAlarm" =>
              /\ mNextAnomalyAlarmTime' = 0
              /\ UNCHANGED <<now, procVars, trainInfoOnDisk, saveVars>>
       /\ (log'.op = "OnLogEvent" /\ alarmCancelled) =>
              /\ ~log'.alarmFired
              /\ mNextAnomalyAlarmTime' = 0
      ]_vars

\* A valid event, with a manager in the map, arrived after the alarm was
\* cancelled and past the time an alarm can be set for.
C14_Witness ==
    /\ log.op = "OnLogEvent"
    /\ log.valid
    /\ alarmCancelled
    /\ mMetricsManagers[Key1].present
    /\ now >= MillisToNano(1)

\* C15: whenever OnLogEvent finds a config out of its time-to-live, the
\* buffered data of its manager is written to disk before the manager is
\* rebuilt, however recently data was last written.
C15_ExpiredConfigPersistedBeforeReset ==
    [][(/\ log'.op = "OnLogEvent"
        /\ log'.expired # NoKey
        /\ ~hasRestrictedMetricsDelegate(mMetricsManagers[log'.expired])
        /\ mMetricsManagers[log'.expired].bytes > 0)
           => log'.expired \in log'.files
      ]_vars

\* C17: WriteDataToDisk for all configs, called within the cool-down of the
\* last all-configs write, writes no file, erases no data, marks no key and
\* leaves the last-write time unchanged; at the cool-down or later it
\* records the new time and writes every config whose manager should write
\* to disk (to the restricted store for a restricted manager).
C17_WriteAllCoolDown ==
    [][log'.op = "WriteDataToDisk" =>
          IF now < mLastWriteTimeNs + WRITE_DATA_COOL_DOWN
          THEN /\ log'.files = {} /\ log'.flushed = {} /\ log'.mgrDumped = {}
               /\ UNCHANGED procVars
          ELSE /\ mLastWriteTimeNs' = now
               /\ \A k \in Keys :
                     (mMetricsManagers[k].present /\ log'.shouldWrite) =>
                        /\ mMetricsManagers'[k].bytes = 0
                        /\ IF mMetricsManagers[k].restricted
                           THEN k \in log'.flushed /\ k \notin log'.files
                           ELSE /\ k \in log'.files
                                /\ k \in mOnDiskDataConfigs'
      ]_vars

\* A call inside the cool-down of an earlier write found data to write and
\* left it in memory.
C17_Witness ==
    /\ log.op = "WriteDataToDisk"
    /\ log.shouldWrite
    /\ log.files = {}
    /\ mLastWriteTimeNs > 0
    /\ now < mLastWriteTimeNs + WRITE_DATA_COOL_DOWN
    /\ mMetricsManagers[Key1].present
    /\ ~mMetricsManagers[Key1].restricted
    /\ mMetricsManagers[Key1].bytes > 0

\* C16: for SaveActiveConfigsToDisk and for SaveMetadataToDisk, each with its
\* own last-write time: a call within the cool-down of the last call of the
\* same operation that wrote its file leaves the file and the last-write time
\* unchanged, so two writes of the same file are at least a cool-down apart.
C16_SavesCoolDown ==
    [][/\ (/\ log'.op = "SaveActiveConfigsToDisk"
           /\ lastWrote.active_metrics # NoTime
           /\ now < lastWrote.active_metrics + WRITE_DATA_COOL_DOWN)
              => /\ savedFiles' = savedFiles
                 /\ lastWrote' = lastWrote
                 /\ mLastActiveMetricsWriteNs' = mLastActiveMetricsWriteNs
       /\ (/\ log'.op = "SaveMetadataToDisk"
           /\ lastWrote.metadata # NoTime
           /\ now < lastWrote.metadata + WRITE_DATA_COOL_DOWN)
              => /\ savedFiles' = savedFiles
                 /\ lastWrote' = lastWrote
                 /\ mLastMetadataWriteNs' = mLastMetadataWriteNs
       /\ \A f \in {"active_metrics", "metadata"} :
              (lastWrote'[f] # lastWrote[f] /\ lastWrote[f] # NoTime)
                  => lastWrote'[f] - lastWrote[f] >= WRITE_DATA_COOL_DOWN
      ]_vars

\* Each file was written twice, and the last call, a SaveMetadataToDisk
\* inside the cool-down of its last write, was refused.
C16_Witness ==
    /\ log.op = "SaveMetadataToDisk"
    /\ lastWrote.metadata >= 2 * WRITE_DATA_COOL_DOWN
    /\ lastWrote.active_metrics >= 2 * WRITE_DATA_COOL_DOWN
    /\ lastWrote.metadata < now
    /\ now < lastWrote.metadata + WRITE_DATA_COOL_DOWN
    /\ mLastMetadataWriteNs = lastWrote.metadata
    /\ mLastActiveMetricsWriteNs = lastWrote.active_metrics

\* C18: every querySql call invokes exactly one of sendFailure and
\* sendResults, exactly once.
C18_ExactlyOneCallback ==
    [][log'.op = "querySql" => log'.failures + log'.results = 1]_vars

\* The keys in the map with the queried id, a uid of configPackage and a
\* delegate that validates the caller, at the time querySql is called.
KeysFor(query) ==
    {k \in Keys : /\ mMetricsManagers[k].present
                  /\ GetId(k) = query.configId
                  /\ GetUid(k) \in query.uids
                  /\ k \in query.validates}

\* C19: querySql runs the query only when exactly one key of the map has the
\* queried id, a uid of configPackage and a delegate that validates the
\* caller, and runs it against that key; with no such key or more than one it
\* runs no query, flushes nothing, enforces no TTL and reports a failure.
C19_QueryOnlyTheOneAuthorizedKey ==
    [][log'.op = "querySql" =>
          /\ log'.queried # {} =>
                 /\ Cardinality(KeysFor(log'.query)) = 1
                 /\ log'.queried = KeysFor(log'.query)
          /\ Cardinality(KeysFor(log'.query)) # 1 =>
                 /\ log'.queried = {}
                 /\ log'.flushed = {}
                 /\ ~log'.ttlEnforced
                 /\ UNCHANGED procVars
                 /\ log'.results = 0
                 /\ log'.noted = 1
      ]_vars

\* Two restricted configs with the queried id, one under each uid of the
\* package; the caller is validated by one of them only, and the query ran.
C19_Witness ==
    /\ log.op = "querySql"
    /\ log.results = 1
    /\ log.query.uids = Uids
    /\ Cardinality(log.queried) = 1
    /\ \A k \in UidKeys : hasRestrictedMetricsDelegate(mMetricsManagers[k])
    /\ GetId(CHOOSE k \in log.queried : TRUE) = log.query.configId

\* C20: processWatchdogRollbackOccurred with an empty package name returns
\* the empty list for every rollback type and neither reads nor writes train
\* info; with no train info stored for the package, or with an empty stored
\* experiment-id list, it returns the empty list and writes nothing.
C20_NoTrainNoIdsNoWrite ==
    [][(log'.op = "OnLogEvent" /\ log'.rollback.called) =>
          LET call == log'.rollback
              name == call.packageName
          IN /\ name = "" =>
                    /\ call.ids = <<>>
                    /\ ~call.read /\ ~call.wrote
                    /\ trainInfoOnDisk' = trainInfoOnDisk
             /\ (/\ name \in TrainNames
                 /\ \/ ~trainInfoOnDisk[name].present
                    \/ trainInfoOnDisk[name].experimentIds = <<>>)
                    => /\ call.ids = <<>>
                       /\ ~call.wrote
                       /\ trainInfoOnDisk' = trainInfoOnDisk
      ]_vars

\* A rollback event without a package name arrived while a train with
\* experiment ids is stored.
C20_Witness ==
    /\ log.op = "OnLogEvent"
    /\ log.rollback.called
    /\ log.rollback.packageName = ""
    /\ log.rollback.rollbackType = "ROLLBACK_SUCCESS"
    /\ \E n \in TrainNames :
          trainInfoOnDisk[n].present /\ trainInfoOnDisk[n].experimentIds # <<>>

\* C21: for every rollback type, package name and stored train record, a
\* second processWatchdogRollbackOccurred(type, package) returns the list
\* the first call returned and leaves the stored train info as the first
\* call left it.
C21_RollbackCallIdempotent ==
    \A rt \in RollbackTypes, n \in TrainNames \cup {""} :
        LET first == processWatchdogRollbackOccurred(trainInfoOnDisk, rt, n)
            second == processWatchdogRollbackOccurred(first.disk, rt, n)
        IN /\ second.ids = first.ids
           /\ second.disk = first.disk

\* The first call has just appended the rollback marker to a stored list.
C21_Witness ==
    /\ log.op = "OnLogEvent"
    /\ log.rollback.called
    /\ log.rollback.wrote
    /\ log.rollback.rollbackType = "ROLLBACK_INITIATE"
    /\ trainInfoOnDisk["X"].experimentIds = <<10, 11, 14>>

C23_RollbackAppendsMarkerAndPatchesDiskList ==
    [][(/\ log'.op = "OnLogEvent"
        /\ log'.authorized
        /\ log'.rollback.called
        /\ log'.rollback.rollbackType \in {"ROLLBACK_INITIATE", "ROLLBACK_SUCCESS"}
        /\ readTrainInfoSuccess(trainInfoOnDisk, log'.rollback.packageName)
        /\ trainInfoOnDisk[log'.rollback.packageName].experimentIds # <<>>) =>
          LET old == trainInfoOnDisk[log'.rollback.packageName]
              new == trainInfoOnDisk'[log'.rollback.packageName]
              marker == old.experimentIds[1]
                          + (IF log'.rollback.rollbackType = "ROLLBACK_INITIATE"
                             THEN 4 ELSE 5)
          IN /\ new.experimentIds = IF Contains(old.experimentIds, marker)
                                    THEN old.experimentIds
                                    ELSE Append(old.experimentIds, marker)
             /\ new.experimentIds[1] = old.experimentIds[1]
             /\ [new EXCEPT !.experimentIds = <<>>] = [old EXCEPT !.experimentIds = <<>>]
             /\ \A n \in TrainNames \ {log'.rollback.packageName} :
                   trainInfoOnDisk'[n] = trainInfoOnDisk[n]
             /\ log'.patched
             /\ log'.rollback.ids = new.experimentIds]_vars

\* A ROLLBACK_SUCCESS event has just been patched with the stored ids and
\* the marker first id + 5 it appended to them.
C23_Witness ==
    /\ log.op = "OnLogEvent"
    /\ log.patched
    /\ log.rollback.called
    /\ log.rollback.rollbackType = "ROLLBACK_SUCCESS"
    /\ log.rollback.ids = <<10, 11, 15>>
    /\ trainInfoOnDisk["X"].experimentIds = <<10, 11, 15>>

\* C24: each rate limiter admits a request made exactly the minimum period
\* after the previous one and refuses a request made earlier: the byte-size
\* check of a key against its last check, the data-ready broadcast of a key
\* against its last broadcast, the activation broadcast of a uid against its
\* last activation broadcast, and the save of the metadata against the last
\* save (an admitted save replaces the file, or deletes it when there is no
\* metadata to write).
C24_LimitersAdmitFromThePeriodOn ==
    [][/\ log'.op = "OnLogEvent" =>
            /\ \A k \in log'.delivered :
                  mLastByteSizeTimes[k] # NoTime =>
                      ((\E c \in log'.checks : c.key = k)
                          <=> now - mLastByteSizeTimes[k] >= kMinByteSizeCheckPeriodNs)
            /\ \A c \in log'.checks :
                  (c.requestDump /\ ~c.flushed /\ mLastBroadcastTimes[c.key] # NoTime) =>
                      (c.sent # "none"
                          <=> now - mLastBroadcastTimes[c.key] >= kMinBroadcastPeriodNs)
            /\ \A u \in Uids :
                  mLastActivationBroadcastTimes[u] # NoTime =>
                      /\ (\E c \in log'.actCalls : c.uid = u) =>
                            now - mLastActivationBroadcastTimes[u]
                                >= kMinActivationBroadcastPeriodNs
                      /\ u \in log'.actHits =>
                            now - mLastActivationBroadcastTimes[u]
                                < kMinActivationBroadcastPeriodNs
       /\ log'.op = "SaveMetadataToDisk" =>
            IF now >= mLastMetadataWriteNs + WRITE_DATA_COOL_DOWN
            THEN /\ mLastMetadataWriteNs' = now
                 /\ savedFiles'.metadata \in {now, NoTime}
            ELSE UNCHANGED <<mLastMetadataWriteNs, savedFiles>>
      ]_vars

\* After a save admitted exactly one cool-down after the last, an event
\* arrives exactly one period after the last byte-size check, data-ready
\* broadcast and activation broadcast, and all three are admitted.
C24_Witness ==
    /\ log.op = "OnLogEvent"
    /\ now = kMinBroadcastPeriodNs
    /\ mLastMetadataWriteNs = WRITE_DATA_COOL_DOWN
    /\ savedFiles.metadata = WRITE_DATA_COOL_DOWN
    /\ \E c \in log.checks :
          /\ c.sent = "ok"
          /\ c.prevBc = now - kMinBroadcastPeriodNs
    /\ \E c \in log.actCalls :
          /\ c.prev = now - kMinActivationBroadcastPeriodNs
          /\ c.ok

\* The manager map and the bookkeeping maps that are indexed by config key.
PerKeyState(P) ==
    [mgr |-> P.mgr, lastBc |-> P.lastBc, lastByte |-> P.lastByte,
     reportNum |-> P.reportNum, onDisk |-> P.onDisk]

C26_InvalidUpdateErasesAndBroadcastsEmpty ==
    [][(log'.op = "OnConfigUpdated" /\ lastUpdate'[log'.key] = "invalid") =>
          LET key == log'.key
              it == mMetricsManagers[key]
          IN /\ ~mMetricsManagers'[key].present
             /\ \A k \in Keys \ {key} : mMetricsManagers'[k] = mMetricsManagers[k]
             /\ log'.rmBcasts = IF hasRestrictedMetricsDelegate(it)
                                THEN {[key |-> key, empty |-> TRUE]}
                                ELSE {}]_vars

\* An invalid config has just replaced a restricted config while the other
\* key has a manager.
C26_Witness ==
    /\ log.op = "OnConfigUpdated"
    /\ lastUpdate[log.key] = "invalid"
    /\ log.rmBcasts = {[key |-> log.key, empty |-> TRUE]}
    /\ ~mMetricsManagers[log.key].present
    /\ \E k \in Keys \ {log.key} : mMetricsManagers[k].present

\* C27: an APP_BREADCRUMB_REPORTED event reaches no manager's onLogEvent and
\* causes no byte-size check and no activation broadcast unless the uid it
\* encodes is the caller's host uid or the caller is statsd, and the state it
\* encodes lies in 0..3; an event of any other atom is delivered to every
\* manager whatever it holds in those fields.
C27_BadBreadcrumbReachesNoManager ==
    log.op = "OnLogEvent" =>
        LET c == log.crumb
            wellFormed ==
                /\ ~c.uidErr
                /\ c.appHookUid = c.loggerUid \/ c.loggerUid = AID_STATSD
                /\ ~c.stateErr
                /\ c.appHookState \in 0..3
        IN /\ (log.tag = "APP_BREADCRUMB_REPORTED" /\ ~wellFormed) =>
                 /\ log.delivered = {}
                 /\ log.checks = {}
                 /\ log.actCalls = {}
                 /\ log.actHits = {}
           /\ (log.tag # "APP_BREADCRUMB_REPORTED" /\ log.valid) =>
                 log.delivered = {k \in Keys : mMetricsManagers[k].present}

\* A breadcrumb with state 4 from statsd itself arrived while a config was
\* installed and was dropped.
C27_Witness ==
    /\ log.op = "OnLogEvent"
    /\ log.tag = "APP_BREADCRUMB_REPORTED"
    /\ log.crumb.loggerUid = AID_STATSD
    /\ log.crumb.appHookState = 4
    /\ mMetricsManagers[Key1].present
    /\ log.delivered = {}

\* C28: a restricted event is not delivered to a manager without a
\* restricted-metrics delegate, and for that event such a manager is left as
\* it was, gets no byte-size check and causes no activation broadcast for its
\* uid; an unrestricted event is delivered to every manager in the map, in
\* one onLogEvent call each.
C28_RestrictedEventSkipsPlainManagers ==
    [][(log'.op = "OnLogEvent" /\ log'.valid) =>
          LET Present == {k \in Keys : mMetricsManagers[k].present}
              Skipped == {k \in Present :
                             log'.restricted
                                 /\ ~hasRestrictedMetricsDelegate(mMetricsManagers[k])}
          IN /\ log'.delivered = Present \ Skipped
             /\ log'.onLogEventCalls = Cardinality(Present \ Skipped)
             /\ \A k \in Skipped :
                   /\ mMetricsManagers'[k] = mMetricsManagers[k]
                   /\ mLastByteSizeTimes'[k] = mLastByteSizeTimes[k]
                   /\ \A c \in log'.checks : c.key # k
                   /\ \A c \in log'.actCalls : c.uid # GetUid(k)
                   /\ GetUid(k) \notin log'.actHits]_vars

\* A restricted event has just reached the restricted manager of one uid
\* and changed its activation state, while the unrestricted manager of the
\* other uid was skipped.
C28_Witness ==
    /\ log.op = "OnLogEvent"
    /\ log.restricted
    /\ log.delivered = {<<1, 1>>}
    /\ mMetricsManagers[<<2, 1>>].present
    /\ ~mMetricsManagers[<<2, 1>>].restricted
    /\ \E c \in log.actCalls : c.uid = 1

\* C29: a condition change to false while the key is Started adds
\* now - lastStartTime to lastDuration and makes the key Paused; a change to
\* true while it is Paused makes it Started with lastStartTime = now; and at
\* every moment the duration the key has contributed (recorded in the bucket,
\* accumulated in lastDuration, or running since lastStartTime) is the total
\* time during which it was started and the condition was true.
C29_PauseResumeAccountsConditionTrueTime ==
    [][/\ (log'.op = "onConditionChanged" /\ ~mCondition'
                /\ durationInfo.state = kStarted) =>
             /\ durationInfo'.state = kPaused
             /\ durationInfo'.lastDuration =
                    durationInfo.lastDuration + (now - durationInfo.lastStartTime)
       /\ (log'.op = "onConditionChanged" /\ mCondition'
                /\ durationInfo.state = kPaused) =>
             /\ durationInfo'.state = kStarted
             /\ durationInfo'.lastStartTime = now
             /\ durationInfo'.lastDuration = durationInfo.lastDuration
       /\ mDuration' + durationInfo'.lastDuration
              + (IF durationInfo'.state = kStarted
                 THEN now' - durationInfo'.lastStartTime ELSE 0)
            = startedAndTrue'
      ]_vars

\* The key started at 0 or 1, was paused after running for one time unit
\* and has just been resumed at 2; nothing is recorded in the bucket yet.
C29_Witness ==
    /\ log.op = "onConditionChanged"
    /\ mCondition
    /\ now = 2
    /\ durationInfo.state = kStarted
    /\ durationInfo.lastStartTime = 2
    /\ durationInfo.lastDuration = 1
    /\ mDuration = 0
    /\ startedAndTrue = 1

\* C30: a byte-size check clears the on-disk-data mark of the key and sets
\* its last-broadcast time only if sendBroadcast(key) returned true; if the
\* callback returned false, or was not invoked, both are as before, and after
\* a false return the next byte-size check that the rate limit lets through
\* requests the dump and invokes the callback again.
C30_FailedBroadcastLeavesMarkAndTime ==
    log.op = "OnLogEvent" =>
        \A c \in log.checks :
            /\ c.sent = "ok" =>
                  /\ c.key \notin mOnDiskDataConfigs
                  /\ mLastBroadcastTimes[c.key] = now
            /\ c.sent # "ok" =>
                  /\ (c.key \in mOnDiskDataConfigs) = c.onDisk
                  /\ mLastBroadcastTimes[c.key] = c.prevBc
            /\ c.sent = "fail" =>
                  LET next == flushIfNecessaryLocked(
                                  Proc, c.key, now + kMinByteSizeCheckPeriodNs, TRUE)
                  IN \E d \in next.log.checks :
                        /\ d.key = c.key
                        /\ d.requestDump
                        /\ d.sent = "ok"

\* sendBroadcast has just returned false for a key that has data on disk
\* and had a broadcast before.
C30_Witness ==
    /\ log.op = "OnLogEvent"
    /\ \E c \in log.checks :
          /\ c.sent = "fail"
          /\ c.onDisk
          /\ c.prevBc # NoTime
          /\ c.key \in mOnDiskDataConfigs
          /\ mLastBroadcastTimes[c.key] = c.prevBc

\* C31 as stated: any two consecutive byteSize() computations for a key are
\* at least kMinByteSizeCheckPeriodNs apart.
C31_AnyTwoChecksApart ==
    [][\A c \in log'.checks :
          lastChecked[c.key] # NoTime =>
              now' - lastChecked[c.key] >= kMinByteSizeCheckPeriodNs]_vars

\* C31: two consecutive byteSize() computations for a key with no
\* OnConfigRemoved of the key between them are at least
\* kMinByteSizeCheckPeriodNs apart, and an event delivered to a manager whose
\* check the limit skips (and whose config the event does not reset for its
\* time-to-live) drops none of its data, sends no broadcast for it and
\* leaves its last-check time, its last-broadcast time and its on-disk-data
\* mark as they were.
C31_ChecksApartUnlessRemoved ==
    [][/\ \A c \in log'.checks :
              (lastChecked[c.key] # NoTime /\ c.key \notin forgotten) =>
                  now' - lastChecked[c.key] >= kMinByteSizeCheckPeriodNs
       /\ \A k \in log'.delivered :
              (/\ log'.op = "OnLogEvent"
               /\ log'.expired # k
               /\ ~\E c \in log'.checks : c.key = k) =>
                  /\ ByteSizeCheckLimited(mLastByteSizeTimes[k], now)
                  /\ mMetricsManagers'[k].bytes >= mMetricsManagers[k].bytes
                  /\ mLastByteSizeTimes'[k] = mLastByteSizeTimes[k]
                  /\ mLastBroadcastTimes'[k] = mLastBroadcastTimes[k]
                  /\ (k \in mOnDiskDataConfigs') = (k \in mOnDiskDataConfigs)
                  /\ lastSent'[k] = lastSent[k]]_vars
\* An event at the time of the last check is delivered and its check skipped.
C31_Witness ==
    /\ observing
    /\ log.op = "OnLogEvent"
    /\ Key1 \in log.delivered
    /\ log.checks = {}
    /\ lastChecked[Key1] = now
    /\ mMetricsManagers[Key1].bytes > 0

\* C39: any two report files written for the same ConfigKey, by whichever
\* operation, are written at least the write cool-down apart.
C39_ReportFilesACoolDownApart ==
    [][\A k \in log'.files :
          lastFile[k] # NoTime => now' - lastFile[k] >= WRITE_DATA_COOL_DOWN]_vars

\* C32: for any set of condition names and any interleaving of markComplete
\* calls, the trigger is invoked at most once (at most one executor thread
\* is ever created) and not before every name of the set has been passed to
\* markComplete; a markComplete that finds the trigger completed changes no
\* field and dispatches nothing.
C32_TriggerAtMostOnceAfterAllNames ==
    /\ [](/\ triggered <= 1
          /\ Cardinality({e \in Executors : tpc[e].at # "none"}) <= 1
          /\ (\E e \in Executors : tpc[e].at # "none") => conditionNames \subseteq marked
          /\ (\E t \in Callers \cup Executors : tpc[t].at = "dispatch")
                 => conditionNames \subseteq marked)
    /\ [][\A t \in Callers \cup Executors :
             (tpc[t].at = "section" /\ mCompleted /\ tpc'[t] # tpc[t]) =>
                 /\ mRemainingConditionNames' = mRemainingConditionNames
                 /\ mCompleted'
                 /\ tpc'[t].at \in {"idle", "done"}
                 /\ \A e \in Executors : tpc'[e].at = "none" <=> tpc[e].at = "none"]_vars
\* Both names were marked, the trigger ran once, and a later markComplete
\* of a name of the set has returned.
C32_Witness ==
    /\ conditionNames = CondNames
    /\ triggered = 1
    /\ tpc[3].at = "done"
    /\ tpc[4].at = "none"
    /\ tpc[1].at = "idle"
    /\ tpc[2].at = "section"
    /\ tpc[2].name = "a"
    /\ mCompleted

\* C33: once every condition name has been marked complete the trigger
\* eventually runs, if the executor thread is scheduled; a trigger built
\* with no names runs with no markComplete call at all, and no later
\* markComplete runs it a second time.
C33_CompletedLeadsToTrigger ==
    /\ mCompleted ~> (triggered = 1)
    /\ [](triggered = 1 => [](triggered = 1))
\* Built with no names: the trigger has run and no markComplete was called.
C33_Witness ==
    /\ conditionNames = {}
    /\ marked = {}
    /\ triggered = 1

\* C34: the thread that completes the set has released mMutex when it
\* creates the executor thread; the mutex is only ever held by a thread
\* inside the block of markComplete, which leaves it without waiting for
\* anything, so the trigger runs with the mutex free or about to be freed
\* and a trigger that calls markComplete gets the mutex.
C34_DispatchAfterUnlock ==
    /\ mMutex # NoThread => tpc[mMutex].at = "section"
    /\ \A t \in Callers \cup Executors :
          tpc[t].at \in {"dispatch", "spawned", "inTrigger", "idle", "done", "none"}
              => mMutex # t
\* The trigger is running, called markComplete and holds the mutex, while
\* a caller waits for it.
C34_Witness ==
    /\ tpc[3].at = "section"
    /\ mMutex = 3
    /\ triggered = 1
    /\ tpc[1].at = "lock"

\* C35: a binary-push event for a train with a record on disk persists, as
\* the experiment ids the status marker is then appended to, the stored ids
\* if it is a rollback, whatever ids and version it carries, and its three
\* bits are then the stored ones; if it is not a rollback it persists the
\* stored ids unless it carries a version other than -1 that differs from
\* the stored one or a non-empty id list whose first id is not the first
\* stored id (there being none included), and then the ids of the event.
C35_RollbackKeepsDiskIdsElseResetRule ==
    [][(/\ log'.op = "OnLogEvent"
        /\ log'.push.called
        /\ log'.push.wrote
        /\ readTrainInfoSuccess(trainInfoOnDisk, log'.push.trainInfo.trainName)) =>
          LET ev == log'.push.trainInfo
              old == trainInfoOnDisk[ev.trainName]
              new == trainInfoOnDisk'[ev.trainName]
              newVersion == /\ ev.trainVersionCode # -1
                            /\ ev.trainVersionCode # old.trainVersionCode
              newFirstId == /\ ev.experimentIds # <<>>
                            /\ \/ old.experimentIds = <<>>
                               \/ ev.experimentIds[1] # old.experimentIds[1]
              base == IF log'.push.is_rollback THEN old.experimentIds
                      ELSE IF newVersion \/ newFirstId THEN ev.experimentIds
                      ELSE old.experimentIds
              marker == base[1] + StatusMarker(ev.status)
          IN /\ new.experimentIds =
                    IF base = <<>> THEN <<>>
                    ELSE IF Contains(base, marker) THEN base
                    ELSE Append(base, marker)
             /\ log'.push.is_rollback =>
                    /\ new.requiresStaging = old.requiresStaging
                    /\ new.rollbackEnabled = old.rollbackEnabled
                    /\ new.requiresLowLatencyMonitor = old.requiresLowLatencyMonitor]_vars
\* A rollback push with version 2, ids <<20>> and the bits clear has left
\* the stored ids <<10, 11>> and the stored bits in place.
C35_Witness ==
    /\ log.op = "OnLogEvent"
    /\ log.push.called
    /\ log.push.is_rollback
    /\ log.push.trainInfo.trainVersionCode = 2
    /\ log.push.trainInfo.experimentIds = <<20>>
    /\ ~log.push.trainInfo.requiresStaging
    /\ trainInfoOnDisk["X"].present
    /\ trainInfoOnDisk["X"].experimentIds = <<10, 11>>
    /\ trainInfoOnDisk["X"].requiresStaging

\* C36: whenever OnLogEvent invokes sendActivationBroadcast(uid, ids), ids
\* is the set of config ids of the uid whose managers are active, which is
\* what GetActiveConfigs(uid) returns, for every event.
C36_BroadcastIdsAreActiveConfigs ==
    log.op = "OnLogEvent" =>
        \A c \in log.actCalls : c.ids = GetActiveConfigsLocked(Proc, c.uid)

\* C37: addAnomalyTracker sets an alarm only when the alert is new or
\* replaced and leaves the alarm of a preserved alert as it is; when it sets
\* one, the predicted anomaly time is not after the update time or a
\* duration is started, and the alarm time is max(predicted, update time).
C37_AlarmOnlyForNewOrReplaced ==
    [][(mAnomalyTrackers' # mAnomalyTrackers) =>
          /\ lastAdd'.updateStatus = "UPDATE_PRESERVE" =>
                 /\ ~lastAdd'.startAlarm
                 /\ alarms'[lastAdd'.alert] = alarms[lastAdd'.alert]
          /\ lastAdd'.startAlarm =>
                 /\ lastAdd'.updateStatus \in {"UPDATE_NEW", "UPDATE_REPLACE"}
                 /\ lastAdd'.predicted <= lastAdd'.updateTimeNs \/ lastAdd'.hasStarted
                 /\ alarms'[lastAdd'.alert]
                        = Max(lastAdd'.predicted, lastAdd'.updateTimeNs)]_vars

\* C38: a time stored by setAnomalyAlarm is not lost to a concurrent
\* OnLogEvent.  The thread that is about to reset the slot holds
\* mAnomalyAlarmMutex since it made its test, and the slot still holds the
\* value it found due; so every step that takes a non-zero time t out of the
\* slot is either an assignment of setAnomalyAlarm or the reset of an
\* OnLogEvent that found t due and goes on to fire the alarm for it.
C38_SetNotLostToCheck ==
    /\ [](\A t \in Threads :
             (pc[t] # Idle /\ At(t).ins = "reset") =>
                 /\ mutexOwner.anomaly = t
                 /\ pc[t].seen # 0 => mNextAnomalyAlarmTime = pc[t].seen)
    /\ [][(mNextAnomalyAlarmTime # 0 /\ mNextAnomalyAlarmTime' # mNextAnomalyAlarmTime) =>
             \E t \in Threads :
                 /\ pc[t] # Idle
                 /\ pc'[t] # pc[t]
                 /\ mutexOwner.anomaly = t
                 /\ \/ At(t).ins = "set"
                    \/ /\ At(t).ins = "reset"
                       /\ pc[t].seen = mNextAnomalyAlarmTime
                       /\ AlarmDue(mNextAnomalyAlarmTime, now)
                       /\ mNextAnomalyAlarmTime' = 0
                       /\ pc'[t].seen = pc[t].seen]_vars
\* An OnLogEvent is about to fire the alarm for the time 1 it found due and
\* reset, and the slot holds the time 2 that a setAnomalyAlarm, which waited
\* for the mutex during the check, has stored since.
C38_Witness ==
    \E t \in Threads :
        /\ pc[t] # Idle
        /\ At(t).ins = "fire"
        /\ pc[t].seen = 1
        /\ mNextAnomalyAlarmTime = 2

\* The report number onDumpReport writes for a key with the given entry.
ReportNumber(entry) == IF entry = NoTime THEN 0 ELSE entry

\* C40 as stated: onDumpReport with erase_data = false leaves the report
\* number, the last data-ready-broadcast time and the on-disk-data mark of
\* every key unchanged, and erase_data = true adds one to the report number.
C40_DumpWithoutEraseReadOnly ==
    \A k \in Keys :
        LET P == onDumpReport(Proc, k, FALSE)
        IN /\ \A j \in Keys : ReportNumber(P.reportNum[j])
                                  = ReportNumber(mDumpReportNumbers[j])
           /\ P.lastBc = mLastBroadcastTimes
           /\ P.onDisk = mOnDiskDataConfigs

\* C40: onDumpReport with erase_data = false leaves the report number and
\* the on-disk-data mark of every key unchanged, and erases the last
\* data-ready-broadcast time of the key if the key has a manager with no
\* restricted delegate; the report number of the key increases by one on
\* the calls with erase_data = true that are not refused for a restricted
\* manager, and on no other call.
C40_DumpWithoutEraseKeepsNumberAndMark ==
    \A k \in Keys, erase_data \in BOOLEAN :
        LET P == onDumpReport(Proc, k, erase_data)
            it == mMetricsManagers[k]
            refused == it.present /\ hasRestrictedMetricsDelegate(it)
        IN /\ P.onDisk = mOnDiskDataConfigs
           /\ \A j \in Keys \ {k} :
                 /\ P.reportNum[j] = mDumpReportNumbers[j]
                 /\ P.lastBc[j] = mLastBroadcastTimes[j]
           /\ ReportNumber(P.reportNum[k]) =
                 IF erase_data /\ ~refused
                 THEN ReportNumber(mDumpReportNumbers[k]) + 1
                 ELSE ReportNumber(mDumpReportNumbers[k])
           /\ P.lastBc[k] = IF it.present /\ ~refused THEN NoTime
                            ELSE mLastBroadcastTimes[k]
\* A dump without erase has just erased the time of a broadcast that was
\* sent: the data is still in the manager, the key is still marked as
\* having data on disk, and the report number is 0.
C40_Witness ==
    /\ log.op = "onDumpReport"
    /\ log.key = Key1
    /\ mMetricsManagers[Key1].present
    /\ mMetricsManagers[Key1].bytes > 0
    /\ mDumpReportNumbers[Key1] = 0
    /\ mLastBroadcastTimes[Key1] = NoTime
    /\ lastSent[Key1] # NoTime
    /\ sentCleared[Key1]
    /\ Key1 \in mOnDiskDataConfigs

=============================================================================
